---- MODULE Spec2Model ----
(***************************************************************************)
(* DragonsFieldServer: the session / player state machine and the zone     *)
(* transfer engine of src/server/index.ts (the live server, lines          *)
(* 1224-2895), as a state machine.  One action per socket.io handler or    *)
(* timer callback.  A handler that awaits delay(1) is two actions: the     *)
(* part before the await (Begin...) and the part after it (Resume).        *)
(***************************************************************************)
EXTENDS Integers, Sequences, FiniteSets, Bags, TLC

VARIABLES
  sessions,            \* code -> Session (players, turn, activePlayer, sessionType)
  sockets,             \* socket id -> "fresh" | "open" | "closed"
  reconnectionTimers,  \* the live removal timers; mapped = held by reconnectionTimers[key]
  pending,             \* handlers suspended at `await delay(1)`, oldest first
  last                 \* what the handler that ran last did and emitted

vars == <<sessions, sockets, reconnectionTimers, pending, last>>

(***************************************************************************)
(* Bounds of the model.                                                    *)
(***************************************************************************)
MaxPending == 2      \* handlers suspended at the same time
MaxTokens == 1       \* tokens and clones a player creates
MaxWrap == 1         \* CardOnField wrappers moveCardToBattlefieldFlipped may re-wrap
MaxTurn == 2         \* nextTurn is not issued past this turn number
MaxHand == 3         \* cards in a hand given to sortPlayerHand
MaxBoost == 1        \* stats and counters of an element are not raised past this

(***************************************************************************)
(* Program constants.                                                      *)
(***************************************************************************)
StandardLife == 20
CommanderLife == 40
OpeningHand == 7
DefaultX == 50
DefaultY == 50
TokenX == 100
TokenY == 100
OFFSET_INCREMENT == 20

\* initialSessions, in the order `for (const code in sessions)` visits them.
\* STND2 and CMDR2 are copies of STND1 and CMDR1 and are left out.
initialSessions == << [code |-> "STND1", sessionType |-> "standard"],
                      [code |-> "CMDR1", sessionType |-> "commander"] >>

Codes == { initialSessions[i].code : i \in 1..Len(initialSessions) }

\* The ids socket.io gives to connections; a connection never reuses one.
SocketIds == {"s1", "s2", "s3"}

\* The seven zones of the Zone type.
Zone == {"hand", "library", "battlefield", "graveyard", "exile", "commanderZone", "sideboard"}

\* Own properties of a Player object whose value is an array.
ArrayProps == Zone \cup {"initialDeck", "initialSideboard", "commanders"}

\* Own properties of a Player object (player.hasOwnProperty).
OwnProps == ArrayProps \cup {"id", "name", "isOnline", "life", "manaPool", "counters"}

ManaColors == {"W", "U", "B", "R", "G", "C"}

CounterNames == {"Poison", "Energy", "Experience", "Rad", "Tickets",
                 "Commander 1", "Commander 2", "Commander 3"}

\* An optional argument is {} (undefined) or {v}.
Undefined == {}

Some(v) == {v}

\* a ?? b
OrElse(a, b) == IF a # Undefined THEN CHOOSE v \in a : TRUE ELSE b

\* RemoveAt, were splice to leave the element in the array.
LeaveAt(s, i) == s

(***************************************************************************)
(* Sequences.                                                              *)
(***************************************************************************)
\* Array.prototype.splice(i, 1) with a 1-based index.
RemoveAt(s, i) == SubSeq(s, 1, i - 1) \o SubSeq(s, i + 1, Len(s))

\* Array.prototype.findIndex((c) => c.id === id), 1-based; 0 when absent (-1 in JS).
FindIndexById(s, id) ==
  IF \E i \in 1..Len(s) : s[i].id = id
  THEN CHOOSE i \in 1..Len(s) : s[i].id = id /\ \A j \in 1..(i - 1) : s[j].id # id
  ELSE 0

\* FindIndexByName, were a name never found.
NoSuchName(s, name) == 0

FindIndexByName(s, name) ==
  IF \E i \in 1..Len(s) : s[i].name = name
  THEN CHOOSE i \in 1..Len(s) : s[i].name = name /\ \A j \in 1..(i - 1) : s[j].name # name
  ELSE 0

Swap(s, i, j) == [s EXCEPT ![i] = s[j], ![j] = s[i]]

\* Every result of the Fisher-Yates loop `for (i = length-1; i > 0; i--)` with
\* j drawn from 0..i, from the arrays reached so far; here i is the 1-based
\* position being filled.
RECURSIVE FisherYates(_, _)
FisherYates(results, i) ==
  IF i <= 1 THEN results
  ELSE FisherYates({ Swap(s, i, j) : s \in results, j \in 1..i }, i - 1)

shuffle(array) == FisherYates({array}, Len(array))

\* RemoveCommanders, were the commanders to stay in the shuffle pool.
KeepCommanders(deck, commanders) == deck

\* Removes, for each commander in turn, the first card of the deck with its id.
RECURSIVE RemoveCommanders(_, _)
RemoveCommanders(deck, commanders) ==
  IF commanders = << >> THEN deck
  ELSE LET i == FindIndexById(deck, Head(commanders).id)
       IN RemoveCommanders(IF i > 0 THEN RemoveAt(deck, i) ELSE deck, Tail(commanders))

\* `for (i = 0; i < count && library.length > 0; i++) hand.push(library.shift())`
RECURSIVE DrawCards(_, _, _)
DrawCards(library, hand, count) ==
  IF count = 0 \/ library = << >> THEN [library |-> library, hand |-> hand]
  ELSE DrawCards(Tail(library), Append(hand, Head(library)), count - 1)

(***************************************************************************)
(* Cards.  A CardType object is [id, obj]: obj names the payload array the *)
(* object was created from (objects of the deck, sideboard and commander   *)
(* payloads are distinct objects even when their ids agree).  A            *)
(* CardOnField is a record with a `card` field.                            *)
(***************************************************************************)
\* The ids of the double-faced cards a deck may hold.
DoubleFacedIds == {"D"}

\* The slots flipCard exchanges: <<front slot, second-face slot>>.
FaceSlots ==
  { <<"name", "secondFaceName">>, <<"image", "secondFaceImage">>,
    <<"mana_cost", "secondFaceManaCost">>, <<"type_line", "secondFaceTypeLine">>,
    <<"basePower", "secondFaceBasePower">>,
    <<"baseToughness", "secondFaceBaseToughness">>,
    <<"loyalty", "secondFaceLoyalty">> }

\* A double-faced card as a client sends it; "undefined" is an absent slot.
DoubleFaced(id, obj) ==
  [id |-> id, obj |-> obj, hasSecondFace |-> TRUE,
   name |-> "Day", image |-> "day.png", mana_cost |-> "{1}{G}",
   type_line |-> "Creature", basePower |-> "2", baseToughness |-> "2",
   loyalty |-> "undefined",
   secondFaceName |-> "Night", secondFaceImage |-> "night.png",
   secondFaceManaCost |-> "undefined", secondFaceTypeLine |-> "Creature",
   secondFaceBasePower |-> "3", secondFaceBaseToughness |-> "3",
   secondFaceLoyalty |-> "undefined"]

\* A card object; `obj` tells apart the objects of different payload lists.
Card(id, obj) ==
  IF id \in DoubleFacedIds THEN DoubleFaced(id, obj) ELSE [id |-> id, obj |-> obj]

CardsOf(ids, obj) == [i \in 1..Len(ids) |-> Card(ids[i], obj)]

isCardOnField(card) == "card" \in DOMAIN card

\* c.isToken === true
IsToken(c) == "isToken" \in DOMAIN c /\ c.isToken = TRUE

ZeroStats == [power |-> 0, toughness |-> 0]

ZeroMana == [c \in ManaColors |-> 0]

ZeroCounters == [c \in CounterNames |-> 0]

(***************************************************************************)
(* What a handler did: the intent, the session code it named, the path it  *)
(* took, and what it emitted (updateState to the room after its last       *)
(* change, updateSessionStats to everyone, error to the requester), and    *)
(* whether it ended in an uncaught exception.                              *)
(***************************************************************************)
Ev(op, code, res, bcast, stats, err, threw) ==
  [op |-> op, code |-> code, res |-> res, bcast |-> bcast, stats |-> stats,
   err |-> err, threw |-> threw, name |-> "", by |-> "", stale |-> FALSE]

\* The same, for a handler or callback that acts on the player named `name`.
EvFor(name, ev) == [ev EXCEPT !.name = name]

\* The same, for an intent about the player `name` that connection s sent.
EvJoin(s, name, ev) == [ev EXCEPT !.name = name, !.by = s]

\* Failed, were the handler to return without emitting the error.
FailedQuietly(op, code, res) == Ev(op, code, res, FALSE, FALSE, FALSE, FALSE)

\* A handler that returns early and emits nothing.
Quiet(op, code, res) == Ev(op, code, res, FALSE, FALSE, FALSE, FALSE)

\* A handler that ends with io.to(code).emit("updateState", session).
Sent(op, code, res) == Ev(op, code, res, TRUE, FALSE, FALSE, FALSE)

\* A handler that ends with socket.emit("error", ...) and no updateState.
Failed(op, code, res) == Ev(op, code, res, FALSE, FALSE, TRUE, FALSE)

\* sessions[code].players.find((p) => p.id === playerId), as an index; 0 when
\* the session or the player does not exist.
FindPlayer(code, playerId) ==
  IF code \in Codes THEN FindIndexById(sessions[code].players, playerId) ELSE 0

getTimerKey(code, playerName) == <<code, playerName>>

Init ==
  /\ sessions = [code \in Codes |->
       [code |-> code, players |-> << >>, turn |-> 0, activePlayer |-> "",
        sessionType |-> (LET i == CHOOSE i \in 1..Len(initialSessions) :
                                     initialSessions[i].code = code
                         IN initialSessions[i].sessionType)]]
  /\ sockets = [s \in SocketIds |-> "fresh"]
  /\ reconnectionTimers = {}
  /\ pending = << >>
  /\ last = Quiet("init", "", "")

(***************************************************************************)
(* io.on("connection")                                                     *)
(***************************************************************************)
Connect(s) ==
  /\ sockets[s] = "fresh"
  /\ sockets' = [sockets EXCEPT ![s] = "open"]
  /\ last' = Ev("connection", "", "ok", FALSE, TRUE, FALSE, FALSE)
  /\ UNCHANGED <<sessions, reconnectionTimers, pending>>

(***************************************************************************)
(* joinSession                                                             *)
(***************************************************************************)
\* The Player object of a new player; library is one result of shuffle.
NewPlayer(id, playerName, life, deck, sideboardCards, library, commanderZone, commanders) ==
  [id |-> id, name |-> playerName, isOnline |-> TRUE, life |-> life,
   initialDeck |-> deck, initialSideboard |-> sideboardCards,
   library |-> library, hand |-> << >>, battlefield |-> << >>,
   graveyard |-> << >>, exile |-> << >>, commanderZone |-> commanderZone,
   sideboard |-> sideboardCards, commanders |-> commanders,
   manaPool |-> ZeroMana, counters |-> ZeroCounters]

\* CancelTimer, were clearTimeout to leave the timer running.
CancelNothing(timers, key) == timers

\* clearTimeout(reconnectionTimers[key]); delete reconnectionTimers[key]
CancelTimer(timers, key) ==
  { t \in timers : ~(t.mapped /\ getTimerKey(t.code, t.name) = key) }

\* ReconnectTimers, were the reconnect branch to leave the timers alone.
ReconnectKeepsTimers(timers, key) == timers

\* The reconnect branch's effect on the timers: cancel the timer the map holds
\* for the key.  A timer for the key that is still live afterwards was started
\* before this reconnect: it is marked stale.
ReconnectTimers(timers, key) ==
  { IF getTimerKey(t.code, t.name) = key THEN [t EXCEPT !.stale = TRUE] ELSE t :
      t \in CancelTimer(timers, key) }

\* FirstPlayer, were the first joiner not to be made the active player.
NoFirstPlayer(session, player) == session

\* if (session.players.length === 1) { activePlayer = player.id; turn = 1 }
FirstPlayer(session, player) ==
  IF Len(session.players) = 1
  THEN [session EXCEPT !.activePlayer = player.id, !.turn = 1]
  ELSE session

JoinSession(s, code, playerName, deckIds, sideIds, commanderIds) ==
  /\ sockets[s] = "open"
  /\ UNCHANGED <<sockets, pending>>
  /\ IF code \notin Codes
     THEN /\ last' = EvJoin(s, playerName, Failed("joinSession", code, "no_session"))
          /\ UNCHANGED <<sessions, reconnectionTimers>>
     ELSE
     LET session == sessions[code]
         existing == FindIndexByName(session.players, playerName)
         deck == CardsOf(deckIds, "deck")
         commanderCard == CardsOf(commanderIds, "commander")
         isCommander == session.sessionType = "commander"
         life == IF isCommander THEN CommanderLife ELSE StandardLife
         libraryForShuffle ==
           IF isCommander THEN RemoveCommanders(deck, commanderCard) ELSE deck
         commanders == IF isCommander THEN commanderCard ELSE << >>
     IN
     IF existing > 0
     THEN \* reconnection
          /\ reconnectionTimers' =
               ReconnectTimers(reconnectionTimers, getTimerKey(code, playerName))
          /\ sessions' = [sessions EXCEPT ![code].players[existing] =
                            [@ EXCEPT !.id = s, !.isOnline = TRUE]]
          /\ last' = EvJoin(s, playerName,
                          Ev("joinSession", code, "reconnect", TRUE, TRUE, FALSE, FALSE))
     ELSE IF Len(deckIds) = 0
     THEN /\ last' = EvJoin(s, playerName, Failed("joinSession", code, "deck_empty"))
          /\ UNCHANGED <<sessions, reconnectionTimers>>
     ELSE IF isCommander /\ Len(commanderCard) = 0
     THEN /\ last' = EvJoin(s, playerName, Failed("joinSession", code, "no_commander"))
          /\ UNCHANGED <<sessions, reconnectionTimers>>
     ELSE IF sideIds = Undefined
     THEN \* [...sideboardCards] of an undefined payload field throws
          /\ last' = EvJoin(s, playerName,
                           Ev("joinSession", code, "threw", FALSE, FALSE, FALSE, TRUE))
          /\ UNCHANGED <<sessions, reconnectionTimers>>
     ELSE /\ \E library \in shuffle(libraryForShuffle) :
               LET player == NewPlayer(s, playerName, life, deck,
                                       CardsOf(OrElse(sideIds, << >>), "sideboard"),
                                       library, commanders, commanders)
                   players == Append(session.players, player)
               IN sessions' = [sessions EXCEPT ![code] =
                    FirstPlayer([@ EXCEPT !.players = players], player)]
          /\ last' = EvJoin(s, playerName,
                          Ev("joinSession", code, "joined", TRUE, TRUE, FALSE, FALSE))
          /\ UNCHANGED reconnectionTimers

(***************************************************************************)
(* startGame and resetPlayer                                               *)
(***************************************************************************)
\* ResetZones, were the battlefield left as it is.
ResetZonesKeepsBattlefield(player, sessionType) ==
  [player EXCEPT
     !.life = IF sessionType = "commander" THEN CommanderLife ELSE StandardLife,
     !.hand = << >>, !.graveyard = << >>, !.exile = << >>,
     !.sideboard = player.initialSideboard,
     !.manaPool = ZeroMana,
     !.commanderZone = player.commanders]

\* The reset both handlers apply to one player, up to the shuffle: life and
\* zones back to their initial values, commanders back in the commander zone.
ResetZones(player, sessionType) ==
  [player EXCEPT
     !.life = IF sessionType = "commander" THEN CommanderLife ELSE StandardLife,
     !.hand = << >>, !.battlefield = << >>, !.graveyard = << >>, !.exile = << >>,
     !.sideboard = player.initialSideboard,
     !.manaPool = ZeroMana,
     !.commanderZone = player.commanders]

\* library = shuffle(pool), then the opening hand is drawn from its top.
Deal(player, pool) ==
  { LET d == DrawCards(library, player.hand, OpeningHand)
    IN [player EXCEPT !.library = d.library, !.hand = d.hand] :
      library \in shuffle(pool) }

\* The body of resetPlayer after the await, for one player: every result.
ResetPlayerBody(player, sessionType) ==
  LET p1 == [ResetZones(player, sessionType) EXCEPT !.counters = ZeroCounters]
  IN IF sessionType = "commander" /\ Len(p1.commanderZone) > 0
     THEN Deal(p1, RemoveCommanders(player.initialDeck, p1.commanderZone))
     ELSE Deal([p1 EXCEPT !.commanderZone = << >>], player.initialDeck)

\* The forEach callback of startGame for one player: every result, with
\* whether it emitted an error.
StartPlayerBody(player, sessionType) ==
  IF Len(player.initialDeck) = 0
  THEN { [player |-> player, err |-> TRUE] }
  ELSE LET p1 == ResetZones(player, sessionType)
       IN IF sessionType = "commander"
          THEN IF Len(p1.commanderZone) = 0
               THEN { [player |-> p1, err |-> TRUE] }
               ELSE { [player |-> [q EXCEPT !.counters = ZeroCounters], err |-> FALSE] :
                        q \in Deal(p1, RemoveCommanders(player.initialDeck, p1.commanderZone)) }
          ELSE { [player |-> [q EXCEPT !.counters = ZeroCounters], err |-> FALSE] :
                   q \in Deal([p1 EXCEPT !.commanderZone = << >>], player.initialDeck) }

\* session.players.forEach(...) of startGame: every resulting player list.
RECURSIVE StartAll(_, _)
StartAll(players, sessionType) ==
  IF players = << >> THEN { [players |-> << >>, err |-> FALSE] }
  ELSE { [players |-> <<h.player>> \o t.players, err |-> h.err \/ t.err] :
           h \in StartPlayerBody(Head(players), sessionType),
           t \in StartAll(Tail(players), sessionType) }

StartGame(s, code) ==
  /\ sockets[s] = "open"
  /\ UNCHANGED <<sockets, reconnectionTimers, pending>>
  /\ IF code \notin Codes
     THEN /\ last' = Quiet("startGame", code, "no_session")
          /\ UNCHANGED sessions
     ELSE LET session == sessions[code]
          IN \E r \in StartAll(session.players, session.sessionType) :
               IF Len(session.players) = 0
               THEN \* session.players[0].id of an empty list throws, after turn = 1
                    /\ sessions' = [sessions EXCEPT ![code].turn = 1]
                    /\ last' = Ev("startGame", code, "threw", FALSE, FALSE, r.err, TRUE)
               ELSE \E randomPlayerIndex \in 1..Len(session.players) :
                    /\ sessions' = [sessions EXCEPT ![code] =
                         [@ EXCEPT !.players = r.players,
                                   !.turn = 1,
                                   !.activePlayer = r.players[randomPlayerIndex].id]]
                    /\ last' = Ev("startGame", code, "started", TRUE, FALSE, r.err, FALSE)

\* A handler suspended at its await holds the Player object it looked up.  The
\* object is named by (code, name); orphan = the object is no longer in the
\* session's list (the player was removed after the lookup).
Suspended(op, code, name) == [op |-> op, code |-> code, name |-> name, orphan |-> FALSE]

\* The part of an async handler before `await delay(1)`: the lookups.
BeginAsync(op, s, code, playerId) ==
  /\ sockets[s] = "open"
  /\ UNCHANGED <<sessions, sockets, reconnectionTimers>>
  /\ IF FindPlayer(code, playerId) = 0
     THEN /\ last' = Quiet(op, code, "no_player")
          /\ UNCHANGED pending
     ELSE /\ Len(pending) < MaxPending
          /\ pending' = Append(pending,
               Suspended(op, code, sessions[code].players[FindPlayer(code, playerId)].name))
          /\ last' = Quiet(op, code, "awaiting")

BeginResetPlayer(s, code, playerId) == BeginAsync("resetPlayer", s, code, playerId)

\* The players of a session that are removed orphan the handlers that hold them.
Orphan(queue, code, names) ==
  [i \in 1..Len(queue) |->
     IF queue[i].code = code /\ queue[i].name \in names
     THEN [queue[i] EXCEPT !.orphan = TRUE] ELSE queue[i]]

\* The part of resetPlayer after the await.
ResumeResetPlayer ==
  /\ pending # << >>
  /\ Head(pending).op = "resetPlayer"
  /\ pending' = Tail(pending)
  /\ UNCHANGED <<sockets, reconnectionTimers>>
  /\ LET h == Head(pending)
         i == FindIndexByName(sessions[h.code].players, h.name)
     IN IF h.orphan
        THEN \* the reset changes an object no session holds any more
             /\ UNCHANGED sessions
             /\ last' = Sent("resetPlayer", h.code, "orphan")
        ELSE /\ \E p \in ResetPlayerBody(sessions[h.code].players[i],
                                         sessions[h.code].sessionType) :
                  sessions' = [sessions EXCEPT ![h.code].players[i] = p]
             /\ last' = EvFor(h.name, Sent("resetPlayer", h.code, "reset"))

(***************************************************************************)
(* draw, shuffle, changeLife                                               *)
(***************************************************************************)
\* `for (i = 0; i < count; i++) { card = library.shift(); if (card) hand.push(card) }`
DrawBody(player, count) ==
  LET d == DrawCards(player.library, player.hand, count)
  IN [player EXCEPT !.library = d.library, !.hand = d.hand]

\* A handler that looks the player up, changes only that player and ends with
\* updateState; `results` is the set of players it may leave.
PlayerIntent(op, s, code, playerId, results) ==
  /\ sockets[s] = "open"
  /\ UNCHANGED <<sockets, reconnectionTimers, pending>>
  /\ IF FindPlayer(code, playerId) = 0
     THEN /\ last' = Quiet(op, code, "no_player")
          /\ UNCHANGED sessions
     ELSE /\ \E p \in results :
               sessions' = [sessions EXCEPT ![code].players[FindPlayer(code, playerId)] = p]
          /\ last' = Sent(op, code, "ok")

\* The player an intent names; only used where FindPlayer found one.
ThePlayer(code, playerId) ==
  IF FindPlayer(code, playerId) = 0 THEN [id |-> playerId]
  ELSE sessions[code].players[FindPlayer(code, playerId)]

Draw(s, code, playerId, count) ==
  PlayerIntent("draw", s, code, playerId,
               IF FindPlayer(code, playerId) = 0 THEN {}
               ELSE { DrawBody(ThePlayer(code, playerId), count) })

Shuffle(s, code, playerId) ==
  PlayerIntent("shuffle", s, code, playerId,
               IF FindPlayer(code, playerId) = 0 THEN {}
               ELSE { [ThePlayer(code, playerId) EXCEPT !.library = lib] :
                        lib \in shuffle(ThePlayer(code, playerId).library) })

ChangeLife(s, code, playerId, newLife) ==
  PlayerIntent("changeLife", s, code, playerId,
               IF FindPlayer(code, playerId) = 0 THEN {}
               ELSE { [ThePlayer(code, playerId) EXCEPT !.life = newLife] })

(***************************************************************************)
(* moveCard                                                                *)
(***************************************************************************)
BeginMoveCard(s, code, playerId) == BeginAsync("moveCard", s, code, playerId)

\* What the body of a handler leaves: the player, the path taken, and whether
\* it emitted updateState / error.
Outcome(player, res, bcast, err) ==
  [player |-> player, res |-> res, bcast |-> bcast, err |-> err]

\* MovedCardOnField, were the element always built as for a card that enters.
FreshCardOnField(cardId, pureCardType, originalCardOnField, from, x, y) ==
  [id |-> cardId, card |-> pureCardType,
   x |-> OrElse(x, DefaultX), y |-> OrElse(y, DefaultY),
   rotation |-> 0, isFlipped |-> FALSE, isToken |-> FALSE,
   stats |-> ZeroStats, counters |-> 0]

\* The CardOnField moveCard builds for a battlefield destination.
MovedCardOnField(cardId, pureCardType, originalCardOnField, from, x, y) ==
  LET orig == originalCardOnField
      has == orig # Undefined
      o == CHOOSE v \in orig : TRUE
  IN [id |-> cardId,
      card |-> pureCardType,
      x |-> OrElse(x, IF has THEN o.x ELSE DefaultX),
      y |-> OrElse(y, IF has THEN o.y ELSE DefaultY),
      rotation |-> IF has THEN o.rotation ELSE 0,
      isFlipped |-> IF has THEN o.isFlipped ELSE FALSE,
      isToken |-> IF has THEN o.isToken ELSE FALSE,
      stats |-> IF from = "battlefield" THEN o.stats ELSE ZeroStats,
      counters |-> IF from = "battlefield" THEN o.counters ELSE 0]

\* InsertIntoZone, were every destination to receive the card at its end.
InsertAtEnd(player, to, pureCardType, toBottom) ==
  IF to \in {"library", "commanderZone", "hand", "graveyard", "exile", "sideboard"}
  THEN [player EXCEPT ![to] = Append(@, pureCardType)]
  ELSE player

\* Insertion of a card into a destination other than the battlefield; a
\* destination array that is none of the six zones receives nothing.
InsertIntoZone(player, to, pureCardType, toBottom) ==
  IF to = "library"
  THEN IF toBottom
       THEN [player EXCEPT !.library = Append(@, pureCardType)]
       ELSE [player EXCEPT !.library = <<pureCardType>> \o @]
  ELSE IF to = "commanderZone"
  THEN [player EXCEPT !.commanderZone = <<pureCardType>> \o @]
  ELSE IF to \in {"hand", "graveyard", "exile", "sideboard"}
  THEN [player EXCEPT ![to] = Append(@, pureCardType)]
  ELSE player

\* RemoveToken, were the token to go to the graveyard as a card does.
RemoveTokenToGraveyard(player, cardIndex) ==
  [player EXCEPT !.battlefield = RemoveAt(@, cardIndex),
                 !.graveyard = Append(@, player.battlefield[cardIndex].card)]

\* player.battlefield.splice(cardIndex, 1) of a token that leaves the battlefield
RemoveToken(player, cardIndex) ==
  [player EXCEPT !.battlefield = RemoveAt(@, cardIndex)]

\* What moveCard does when the card is not in the source array: it emits
\* updateState and returns.
CardNotFound(player) == Outcome(player, "not_found", TRUE, FALSE)

\* What moveCard does when a card that is to leave the battlefield is not on
\* it: it returns.
NotOnBattlefield(player) == Outcome(player, "not_on_battlefield", FALSE, FALSE)

\* The body of moveCard after the await (inside its try block).
\* position is accepted and never read.
MoveCardBody(player, from, to, cardId, x, y, position, toBottom) ==
  IF from \notin OwnProps
  THEN Outcome(player, "invalid_from", FALSE, TRUE)
  ELSE
  LET bfIndex == FindIndexById(player.battlefield, cardId)
      leavesField == from = "battlefield" /\ to # "battlefield"
  IN
  IF leavesField /\ bfIndex = 0
  THEN NotOnBattlefield(player)
  ELSE IF leavesField /\ IsToken(player.battlefield[bfIndex])
  THEN Outcome(RemoveToken(player, bfIndex), "token_removed", TRUE, FALSE)
  ELSE IF from \notin ArrayProps
  THEN Outcome(player, "from_not_array", FALSE, FALSE)
  ELSE
  LET sourceZone == player[from]
      cardIndex == FindIndexById(sourceZone, cardId)
  IN
  IF cardIndex = 0
  THEN CardNotFound(player)
  ELSE
  LET cardUnionType == sourceZone[cardIndex]
      removed == [player EXCEPT ![from] = RemoveAt(sourceZone, cardIndex)]
      pureCardType == IF isCardOnField(cardUnionType) THEN cardUnionType.card
                      ELSE cardUnionType
      originalCardOnField == IF isCardOnField(cardUnionType) THEN Some(cardUnionType)
                             ELSE Undefined
  IN
  IF to = "battlefield"
  THEN IF from = "battlefield" /\ originalCardOnField = Undefined
       THEN \* originalCardOnField!.stats of null throws; the catch emits error
            Outcome(removed, "caught", FALSE, TRUE)
       ELSE Outcome([removed EXCEPT !.battlefield =
                       Append(@, MovedCardOnField(cardId, pureCardType,
                                                  originalCardOnField, from, x, y))],
                    "moved", TRUE, FALSE)
  ELSE IF to \notin ArrayProps
  THEN \* the card is pushed back onto the source array
       Outcome([removed EXCEPT ![from] = Append(@, pureCardType)],
               "invalid_to", FALSE, TRUE)
  ELSE Outcome(InsertIntoZone(removed, to, pureCardType, toBottom),
               "moved", TRUE, FALSE)

\* The part of moveCard after the await.  The handler reads from, to, cardId,
\* x, y, position and toBottom only here, so they are drawn here.
ResumeMoveCard(from, to, cardId, x, y, position, toBottom) ==
  /\ pending # << >>
  /\ Head(pending).op = "moveCard"
  /\ pending' = Tail(pending)
  /\ UNCHANGED <<sockets, reconnectionTimers>>
  /\ LET h == Head(pending)
         i == FindIndexByName(sessions[h.code].players, h.name)
     IN IF h.orphan
        THEN \* the move changes an object no session holds any more; what it
             \* emits depends on that object
             /\ UNCHANGED sessions
             /\ last' \in { Quiet("moveCard", h.code, "orphan"),
                            Sent("moveCard", h.code, "orphan"),
                            Failed("moveCard", h.code, "orphan") }
        ELSE LET r == MoveCardBody(sessions[h.code].players[i],
                                   from, to, cardId, x, y, position, toBottom)
             IN /\ sessions' = [sessions EXCEPT ![h.code].players[i] = r.player]
                /\ last' = Ev("moveCard", h.code, r.res, r.bcast, FALSE, r.err, FALSE)

(***************************************************************************)
(* nextTurn, moveAllCards, moveAllToBottom, discardRandomCard, sortHand,   *)
(* moveCardToBattlefieldFlipped, createToken                               *)
(***************************************************************************)
\* Untap, were nextTurn to leave the rotations alone.
StayTapped(c) == c

\* cardOnField.rotation = 0 (a rotation written onto a plain card is never read)
Untap(c) == IF "rotation" \in DOMAIN c THEN [c EXCEPT !.rotation = 0] ELSE c

\* (currentPlayerIndex % session.players.length), on 0-based indices
NextPlayerIndex(currentPlayerIndex, n) == currentPlayerIndex % n

NextTurn(s, code, playerId) ==
  /\ sockets[s] = "open"
  /\ UNCHANGED <<sockets, reconnectionTimers, pending>>
  /\ IF FindPlayer(code, playerId) = 0
     THEN /\ last' = Quiet("nextTurn", code, "no_player")
          /\ UNCHANGED sessions
     ELSE LET session == sessions[code]
              i == FindPlayer(code, playerId)
              player == session.players[i]
              untapped == [player EXCEPT !.battlefield =
                             [k \in 1..Len(@) |-> Untap(@[k])]]
              players == [session.players EXCEPT ![i] = DrawBody(untapped, 1)]
              nextPlayerIndex == NextPlayerIndex(i - 1, Len(players)) + 1
          IN /\ session.turn < MaxTurn
             /\ sessions' = [sessions EXCEPT ![code] =
                  [@ EXCEPT !.players = players,
                            !.turn = @ + 1,
                            !.activePlayer = players[nextPlayerIndex].id]]
             /\ last' = EvFor(player.name, Sent("nextTurn", code, "ok"))

\* The zones moveAllCards accepts.
movableZones == {"library", "hand", "graveyard", "exile", "commanderZone"}

\* destinationArray.push(...sourceArray); sourceArray.length = 0
MoveAllCardsBody(player, from, to) ==
  IF from = "battlefield" \/ to = "battlefield"
  THEN Outcome(player, "battlefield", FALSE, TRUE)
  ELSE IF from \notin movableZones \/ to \notin movableZones
  THEN Outcome(player, "invalid_zone", FALSE, TRUE)
  ELSE LET pushed == [player EXCEPT ![to] = @ \o player[from]]
       IN Outcome([pushed EXCEPT ![from] = << >>], "moved", TRUE, FALSE)

\* A handler that looks the player up and applies `body`, an Outcome.
ZoneIntent(op, s, code, playerId, body) ==
  /\ sockets[s] = "open"
  /\ UNCHANGED <<sockets, reconnectionTimers, pending>>
  /\ IF FindPlayer(code, playerId) = 0
     THEN /\ last' = Quiet(op, code, "no_player")
          /\ UNCHANGED sessions
     ELSE /\ sessions' = [sessions EXCEPT ![code].players[FindPlayer(code, playerId)] =
                            body.player]
          /\ last' = Ev(op, code, body.res, body.bcast, FALSE, body.err, body.res = "threw")

MoveAllCards(s, code, playerId, from, to) ==
  ZoneIntent("moveAllCards", s, code, playerId,
             MoveAllCardsBody(ThePlayer(code, playerId), from, to))

\* cardsToMove = [...sourceArray]; sourceArray.length = 0; library.push(...cardsToMove)
\* A `from` that names no array makes the spread or the length write throw.
MoveAllToBottomBody(player, from, to) ==
  IF to # "library" \/ from = "battlefield"
  THEN Outcome(player, "not_allowed", FALSE, TRUE)
  ELSE IF from \notin ArrayProps
  THEN Outcome(player, "threw", FALSE, FALSE)
  ELSE LET cardsToMove == player[from]
           cleared == [player EXCEPT ![from] = << >>]
       IN Outcome([cleared EXCEPT !.library = @ \o cardsToMove], "moved", TRUE, FALSE)

MoveAllToBottom(s, code, playerId, from, to) ==
  ZoneIntent("moveAllToBottom", s, code, playerId,
             MoveAllToBottomBody(ThePlayer(code, playerId), from, to))

\* hand.splice(randomIndex, 1) pushed onto the graveyard
DiscardBody(player, randomIndex) ==
  IF Len(player.hand) = 0
  THEN Outcome(player, "empty_hand", FALSE, TRUE)
  ELSE Outcome([player EXCEPT !.hand = RemoveAt(@, randomIndex),
                              !.graveyard = Append(@, player.hand[randomIndex])],
               "discarded", TRUE, FALSE)

DiscardRandomCard(s, code, playerId) ==
  \E randomIndex \in 1..(IF FindPlayer(code, playerId) = 0 THEN 1
                         ELSE IF Len(ThePlayer(code, playerId).hand) = 0 THEN 1
                         ELSE Len(ThePlayer(code, playerId).hand)) :
    ZoneIntent("discardRandomCard", s, code, playerId,
               DiscardBody(ThePlayer(code, playerId), randomIndex))

\* The printed attributes of the cards of the model's decks.
mana_value(card) ==
  IF card.id = "A" THEN 2 ELSE IF card.id = "B" THEN 1 ELSE IF card.id = "C" THEN 1 ELSE 0

CardName(card) ==
  IF card.id = "A" THEN 3 ELSE IF card.id = "B" THEN 1 ELSE IF card.id = "C" THEN 2 ELSE 4

type_line(card) ==
  IF card.id = "A" THEN 1 ELSE IF card.id = "B" THEN 2 ELSE IF card.id = "C" THEN 1 ELSE 0

\* The value sortCards compares for a criterion; an unknown criterion compares equal.
SortKey(card, criteria) ==
  IF criteria = "mana_cost" THEN mana_value(card)
  ELSE IF criteria = "name" THEN CardName(card)
  ELSE IF criteria = "type_line" THEN type_line(card)
  ELSE 0

\* Insertion of a card behind every card whose key is not greater (stable).
RECURSIVE InsertSorted(_, _, _)
InsertSorted(sorted, card, criteria) ==
  IF sorted = << >> THEN <<card>>
  ELSE IF SortKey(Head(sorted), criteria) <= SortKey(card, criteria)
  THEN <<Head(sorted)>> \o InsertSorted(Tail(sorted), card, criteria)
  ELSE <<card>> \o sorted

\* [...hand].sort(compare): Array.prototype.sort is stable.
RECURSIVE sortCards(_, _)
sortCards(hand, criteria) ==
  IF hand = << >> THEN << >>
  ELSE InsertSorted(sortCards(SubSeq(hand, 1, Len(hand) - 1), criteria),
                    hand[Len(hand)], criteria)

SortHand(s, code, playerId, criteria) ==
  PlayerIntent("sortHand", s, code, playerId,
               IF FindPlayer(code, playerId) = 0 THEN {}
               ELSE { [ThePlayer(code, playerId) EXCEPT !.hand = sortCards(@, criteria)] })

\* cardOnField.card.hasSecondFace
HasSecondFace(card) == "hasSecondFace" \in DOMAIN card /\ card.hasSecondFace

\* SwapFaces, were the front slots not saved before they are overwritten.
OverwriteFaces(card) ==
  [f \in DOMAIN card |->
     IF \E p \in FaceSlots : p[1] = f
     THEN card[(CHOOSE p \in FaceSlots : p[1] = f)[2]]
     ELSE card[f]]

\* temp = front slots; front slots = second-face slots; second-face slots = temp
SwapFaces(card) ==
  [f \in DOMAIN card |->
     IF \E p \in FaceSlots : p[1] = f
     THEN card[(CHOOSE p \in FaceSlots : p[1] = f)[2]]
     ELSE IF \E p \in FaceSlots : p[2] = f
     THEN card[(CHOOSE p \in FaceSlots : p[2] = f)[1]]
     ELSE card[f]]

\* flipCard writes into the card object itself, and the lists of a player
\* share their card objects: every list element that is the object `old`
\* shows the write.  Objects are told apart by their value.
Rewritten(player, old, new) ==
  [f \in DOMAIN player |->
     IF f \in ArrayProps
     THEN [i \in 1..Len(player[f]) |->
             IF player[f][i] = old THEN new
             ELSE IF isCardOnField(player[f][i]) /\ player[f][i].card = old
             THEN [player[f][i] EXCEPT !.card = new]
             ELSE player[f][i]]
     ELSE player[f]]

\* fromZone = player[from]; a `from` that names no array makes findIndex throw.
MoveFlippedBody(player, from, cardId) ==
  IF from \notin ArrayProps
  THEN Outcome(player, "threw", FALSE, FALSE)
  ELSE LET fromZone == player[from]
           cardIndex == FindIndexById(fromZone, cardId)
       IN IF cardIndex = 0
          THEN Outcome(player, "not_found", FALSE, FALSE)
          ELSE LET cardTypeToMove == fromZone[cardIndex]
                   removed == [player EXCEPT ![from] = RemoveAt(fromZone, cardIndex)]
                   \* a double-faced card is turned to its second face, in place
                   turned == IF HasSecondFace(cardTypeToMove)
                             THEN SwapFaces(cardTypeToMove) ELSE cardTypeToMove
                   rewritten == IF HasSecondFace(cardTypeToMove)
                                THEN Rewritten(removed, cardTypeToMove, turned)
                                ELSE removed
                   cardOnField == [id |-> cardId, card |-> turned,
                                   x |-> DefaultX, y |-> DefaultY, rotation |-> 0,
                                   isFlipped |-> TRUE, isToken |-> FALSE,
                                   stats |-> ZeroStats, counters |-> 0]
               IN Outcome([rewritten EXCEPT !.battlefield = Append(@, cardOnField)],
                          "moved", TRUE, FALSE)

\* The number of CardOnField wrappers around a card.
RECURSIVE Wrappers(_)
Wrappers(c) == IF isCardOnField(c) THEN 1 + Wrappers(c.card) ELSE 0

\* Wrapping an element that is already a CardOnField nests it one level deeper
\* each time; the model stops at MaxWrap wrappers around the element moved.
WrapAllowed(player, from, cardId) ==
  IF from \notin ArrayProps THEN TRUE
  ELSE IF FindIndexById(player[from], cardId) = 0 THEN TRUE
  ELSE Wrappers(player[from][FindIndexById(player[from], cardId)]) <= MaxWrap

MoveCardToBattlefieldFlipped(s, code, playerId, cardId, from) ==
  /\ IF FindPlayer(code, playerId) = 0 THEN TRUE
     ELSE WrapAllowed(ThePlayer(code, playerId), from, cardId)
  /\ ZoneIntent("moveCardToBattlefieldFlipped", s, code, playerId,
                MoveFlippedBody(ThePlayer(code, playerId), from, cardId))

\* The ids of generated tokens and clones (`token-...-${Date.now()}-${random}`).
TokenNames == <<"T1", "T2", "T3">>

TokenIds == { TokenNames[i] : i \in 1..MaxTokens }

\* Every id an element or the card inside it carries.
RECURSIVE IdsOf(_)
IdsOf(c) == {c.id} \cup (IF isCardOnField(c) THEN IdsOf(c.card) ELSE {})

IdsIn(zone) == UNION { IdsOf(zone[i]) : i \in 1..Len(zone) }

IdsOfPlayer(player) == UNION { IdsIn(player[z]) : z \in ArrayProps }

\* CreateTokenBody, were the token put in front of the battlefield.
CreateTokenInFront(player, tokenId) ==
  LET tokenOnField == [id |-> tokenId, card |-> Card(tokenId, tokenId),
                       x |-> TokenX, y |-> TokenY, rotation |-> 0,
                       isFlipped |-> FALSE, isToken |-> TRUE,
                       stats |-> ZeroStats, counters |-> 0]
  IN Outcome([player EXCEPT !.battlefield = <<tokenOnField>> \o @],
             "created", TRUE, FALSE)

CreateTokenBody(player, tokenId) ==
  LET tokenOnField == [id |-> tokenId, card |-> Card(tokenId, tokenId),
                       x |-> TokenX, y |-> TokenY, rotation |-> 0,
                       isFlipped |-> FALSE, isToken |-> TRUE,
                       stats |-> ZeroStats, counters |-> 0]
  IN Outcome([player EXCEPT !.battlefield = Append(@, tokenOnField)],
             "created", TRUE, FALSE)

\* The generated id is new: no element of any player carries it.
CreateToken(s, code, playerId) ==
  \E tokenId \in TokenIds :
    /\ \A c \in Codes : \A i \in 1..Len(sessions[c].players) :
         tokenId \notin IdsOfPlayer(sessions[c].players[i])
    /\ ZoneIntent("createToken", s, code, playerId,
                  CreateTokenBody(ThePlayer(code, playerId), tokenId))

(***************************************************************************)
(* rotateCard, rotateCard180, increment_card_stats, increment_card_counters *)
(***************************************************************************)
\* A handler that finds the element of the battlefield with the id and writes
\* into it; when there is none it returns and emits nothing.
OnField(player, cardId, written) ==
  LET i == FindIndexById(player.battlefield, cardId)
  IN IF i = 0 THEN Outcome(player, "not_found", FALSE, FALSE)
     ELSE Outcome([player EXCEPT !.battlefield[i] = written], "ok", TRUE, FALSE)

\* The element a handler found; only used where there is one.
Found(player, cardId) == player.battlefield[FindIndexById(player.battlefield, cardId)]

\* card.rotation = card.rotation === 0 ? turned : 0
RotateBody(player, cardId, turned) ==
  OnField(player, cardId,
          [Found(player, cardId) EXCEPT !.rotation = IF @ = 0 THEN turned ELSE 0])

RotateCard(s, code, playerId, cardId) ==
  ZoneIntent("rotateCard", s, code, playerId,
             RotateBody(ThePlayer(code, playerId), cardId, 90))

RotateCard180(s, code, playerId, cardId) ==
  ZoneIntent("rotateCard180", s, code, playerId,
             RotateBody(ThePlayer(code, playerId), cardId, 180))

\* What the model's bound is applied to: the element the intent names, when
\* there is one.
Boosted(code, playerId, cardId) ==
  IF FindPlayer(code, playerId) = 0 THEN {}
  ELSE IF FindIndexById(ThePlayer(code, playerId).battlefield, cardId) = 0 THEN {}
  ELSE {Found(ThePlayer(code, playerId), cardId)}

\* cardOnField.stats.power += 1; cardOnField.stats.toughness += 1
IncrementCardStats(s, code, playerId, cardId) ==
  /\ \A c \in Boosted(code, playerId, cardId) : c.stats.power < MaxBoost
  /\ ZoneIntent("increment_card_stats", s, code, playerId,
                OnField(ThePlayer(code, playerId), cardId,
                        [Found(ThePlayer(code, playerId), cardId) EXCEPT
                           !.stats.power = @ + 1, !.stats.toughness = @ + 1]))

\* cardOnField.counters += 1
IncrementCardCounters(s, code, playerId, cardId) ==
  /\ \A c \in Boosted(code, playerId, cardId) : c.counters < MaxBoost
  /\ ZoneIntent("increment_card_counters", s, code, playerId,
                OnField(ThePlayer(code, playerId), cardId,
                        [Found(ThePlayer(code, playerId), cardId) EXCEPT !.counters = @ + 1]))

(***************************************************************************)
(* flipCard, cloneCard                                                     *)
(***************************************************************************)
FlipCardBody(player, cardId) ==
  LET i == FindIndexById(player.battlefield, cardId)
      cardOnField == player.battlefield[i]
  IN IF i = 0
     THEN Outcome(player, "not_found", FALSE, FALSE)
     ELSE IF ~isCardOnField(cardOnField)
     THEN \* cardOnField.card.hasSecondFace of an element without a card throws
          Outcome(player, "threw", FALSE, FALSE)
     ELSE IF ~HasSecondFace(cardOnField.card)
     THEN Outcome(player, "not_dfc", FALSE, TRUE)
     ELSE LET rewritten == Rewritten(player, cardOnField.card, SwapFaces(cardOnField.card))
          IN Outcome([rewritten EXCEPT !.battlefield[i].isFlipped = ~@],
                     "flipped", TRUE, FALSE)

FlipCard(s, code, playerId, cardId) ==
  ZoneIntent("flipCard", s, code, playerId, FlipCardBody(ThePlayer(code, playerId), cardId))

\* JSON.parse(JSON.stringify(obj)): a copy that shares no object with obj.
RECURSIVE deepClone(_)
deepClone(obj) ==
  IF isCardOnField(obj) THEN [obj EXCEPT !.card = deepClone(@)]
  ELSE [obj EXCEPT !.obj = "clone"]

CloneCardBody(player, cardId, newCardId) ==
  LET i == FindIndexById(player.battlefield, cardId)
      originalCardOnField == player.battlefield[i]
  IN IF i = 0
     THEN Outcome(player, "not_found", FALSE, FALSE)
     ELSE IF ~isCardOnField(originalCardOnField)
     THEN \* originalCardOnField.card.id of an element without a card throws
          Outcome(player, "threw", FALSE, FALSE)
     ELSE
     LET baseCardLibraryId == originalCardOnField.card.id
         existingTokenClonesCount ==
           1 + Cardinality({ k \in 1..Len(player.battlefield) :
                               /\ IsToken(player.battlefield[k])
                               /\ isCardOnField(player.battlefield[k])
                               /\ player.battlefield[k].card.id = baseCardLibraryId })
         displacement == existingTokenClonesCount * OFFSET_INCREMENT
         clonedCardOnField ==
           [deepClone(originalCardOnField) EXCEPT
              !.id = newCardId, !.isToken = TRUE,
              !.x = originalCardOnField.x + displacement,
              !.y = originalCardOnField.y + displacement]
     IN Outcome([player EXCEPT !.battlefield = Append(@, clonedCardOnField)],
                "cloned", TRUE, FALSE)

\* The generated id is new: no element of any player carries it.
CloneCard(s, code, playerId, cardId) ==
  \E newCardId \in TokenIds :
    /\ \A c \in Codes : \A i \in 1..Len(sessions[c].players) :
         newCardId \notin IdsOfPlayer(sessions[c].players[i])
    /\ ZoneIntent("cloneCard", s, code, playerId,
                  CloneCardBody(ThePlayer(code, playerId), cardId, newCardId))

(***************************************************************************)
(* disconnect, the removal timer, disconnectPlayer, forceResetSession      *)
(***************************************************************************)
\* The first session, in iteration order, that holds a player whose id is the
\* socket's; 0 when there is none.
FirstSessionOf(s) ==
  IF \E k \in 1..Len(initialSessions) : FindPlayer(initialSessions[k].code, s) > 0
  THEN CHOOSE k \in 1..Len(initialSessions) :
         /\ FindPlayer(initialSessions[k].code, s) > 0
         /\ \A j \in 1..(k - 1) : FindPlayer(initialSessions[j].code, s) = 0
  ELSE 0

\* reconnectionTimers[key] = setTimeout(...), after clearTimeout of the old one.
\* The new timer is the one the map holds for the key.
StartTimer(timers, code, playerName) ==
  { [t EXCEPT !.mapped = IF getTimerKey(t.code, t.name) = getTimerKey(code, playerName)
                         THEN FALSE ELSE @] :
      t \in CancelTimer(timers, getTimerKey(code, playerName)) }
  \cup { [code |-> code, name |-> playerName, mapped |-> TRUE, stale |-> FALSE] }

\* The session after the player at index i went offline.
MarkOffline(session, i) ==
  LET players == [session.players EXCEPT ![i].isOnline = FALSE]
      pause == /\ session.activePlayer = players[i].id
               /\ \A k \in 1..Len(players) : ~players[k].isOnline
  IN [session EXCEPT !.players = players,
                     !.activePlayer = IF pause THEN "" ELSE @,
                     !.turn = IF pause THEN 0 ELSE @]

Disconnect(s) ==
  /\ sockets[s] = "open"
  /\ sockets' = [sockets EXCEPT ![s] = "closed"]
  /\ UNCHANGED pending
  /\ IF FirstSessionOf(s) = 0
     THEN /\ last' = Quiet("disconnect", "", "no_player")
          /\ UNCHANGED <<sessions, reconnectionTimers>>
     ELSE LET code == initialSessions[FirstSessionOf(s)].code
              i == FindPlayer(code, s)
              playerName == sessions[code].players[i].name
          IN /\ sessions' = [sessions EXCEPT ![code] = MarkOffline(@, i)]
             /\ reconnectionTimers' = StartTimer(reconnectionTimers, code, playerName)
             /\ last' = EvFor(playerName,
                              Ev("disconnect", code, "offline", TRUE, TRUE, FALSE, FALSE))

\* RemovePlayer, were the pointer left where it is.
RemovePlayerKeepsPointer(session, i) ==
  [session EXCEPT !.players = RemoveAt(session.players, i)]

\* Hard removal of the player at index i: splice, then the pointer goes to the
\* first remaining player when the removed player's id held it.
RemovePlayer(session, i) ==
  LET players == RemoveAt(session.players, i)
      held == session.activePlayer = session.players[i].id
  IN [session EXCEPT
        !.players = players,
        !.activePlayer = IF held THEN (IF Len(players) > 0 THEN players[1].id ELSE "")
                         ELSE @,
        !.turn = IF held /\ Len(players) = 0 THEN 0 ELSE @]

\* delete reconnectionTimers[timerKey], run by the callback of timer t
ForgetTimer(timers, t) ==
  { [u EXCEPT !.mapped = IF getTimerKey(u.code, u.name) = getTimerKey(t.code, t.name)
                         THEN FALSE ELSE @] : u \in timers \ {t} }

\* The callback of a removal timer.
TimerFire(t) ==
  /\ t \in reconnectionTimers
  /\ reconnectionTimers' = ForgetTimer(reconnectionTimers, t)
  /\ UNCHANGED sockets
  /\ LET currentSession == sessions[t.code]
         playerIndex == FindIndexByName(currentSession.players, t.name)
         ev(res, sent) == [EvFor(t.name, Ev("timer", t.code, res, sent, sent, FALSE, FALSE))
                             EXCEPT !.stale = t.stale]
     IN IF playerIndex = 0
        THEN /\ last' = ev("not_found", FALSE)
             /\ UNCHANGED <<sessions, pending>>
        ELSE IF currentSession.players[playerIndex].isOnline
        THEN /\ last' = ev("online", FALSE)
             /\ UNCHANGED <<sessions, pending>>
        ELSE /\ sessions' = [sessions EXCEPT ![t.code] = RemovePlayer(@, playerIndex)]
             /\ pending' = Orphan(pending, t.code, {t.name})
             /\ last' = ev("removed", TRUE)

\* MayDisconnect, were the requester free to name any player.
MayDisconnectAnyone(s, playerId) == TRUE

\* disconnectPlayer is honoured only when `playerId === socket.id`.
MayDisconnect(s, playerId) == playerId = s

DisconnectPlayer(s, code, playerId) ==
  /\ sockets[s] = "open"
  /\ UNCHANGED <<sockets, reconnectionTimers>>
  /\ IF ~MayDisconnect(s, playerId)
     THEN /\ last' = [Failed("disconnectPlayer", code, "not_yours") EXCEPT !.by = s]
          /\ UNCHANGED <<sessions, pending>>
     ELSE IF FindPlayer(code, playerId) = 0
     THEN /\ last' = [Quiet("disconnectPlayer", code, "no_player") EXCEPT !.by = s]
          /\ UNCHANGED <<sessions, pending>>
     ELSE LET i == FindPlayer(code, playerId)
              name == sessions[code].players[i].name
          IN /\ sessions' = [sessions EXCEPT ![code] = RemovePlayer(@, i)]
             /\ pending' = Orphan(pending, code, {name})
             /\ last' = EvJoin(s, name,
                               Ev("disconnectPlayer", code, "removed", TRUE, TRUE, FALSE, FALSE))

ForceResetSession(s, code) ==
  /\ sockets[s] = "open"
  /\ UNCHANGED <<sockets, reconnectionTimers>>
  /\ IF code \notin Codes
     THEN /\ last' = Failed("forceResetSession", code, "no_session")
          /\ UNCHANGED <<sessions, pending>>
     ELSE /\ sessions' = [sessions EXCEPT ![code] =
               [@ EXCEPT !.players = << >>, !.turn = 0, !.activePlayer = ""]]
          /\ pending' = Orphan(pending, code,
                               { sessions[code].players[i].name :
                                   i \in 1..Len(sessions[code].players) })
          /\ last' = Ev("forceResetSession", code, "reset", FALSE, TRUE, FALSE, FALSE)

(***************************************************************************)
(* The zone-transfer specification: one connection, one player, every      *)
(* zone-transfer intent with every zone of the Zone type as from and to.   *)
(***************************************************************************)
ZoneSockets == {"s1"}

ZoneCodes == {"STND1"}

ZoneNames == {"ann"}

ZoneDecks == { <<"A", "B">> }

\* Card ids an intent may name: the deck's, a token's, and one nobody holds.
ZoneCardIds == {"A", "B", "zz"}

\* Player ids an intent may name: a connection's, and one nobody holds.
ZonePlayerIds == ZoneSockets \cup {"zz"}

Next ==
  \/ \E s \in ZoneSockets : Connect(s)
  \/ \E s \in ZoneSockets, code \in ZoneCodes, name \in ZoneNames, deck \in ZoneDecks :
       JoinSession(s, code, name, deck, Some(<< >>), << >>)
  \/ \E s \in ZoneSockets, code \in ZoneCodes, playerId \in ZonePlayerIds :
       BeginMoveCard(s, code, playerId)
  \/ \E s \in ZoneSockets, code \in ZoneCodes, playerId \in ZoneSockets :
       \/ Draw(s, code, playerId, 1)
       \/ Shuffle(s, code, playerId)
       \/ DiscardRandomCard(s, code, playerId)
       \/ NextTurn(s, code, playerId)
       \/ \E criteria \in {"mana_cost", "name"} : SortHand(s, code, playerId, criteria)
       \/ \E from \in Zone, to \in Zone :
            \/ MoveAllCards(s, code, playerId, from, to)
            \/ MoveAllToBottom(s, code, playerId, from, to)
       \/ \E from \in Zone \ {"battlefield"}, cardId \in ZoneCardIds :
            MoveCardToBattlefieldFlipped(s, code, playerId, cardId, from)
  \/ \E from \in Zone, to \in Zone, cardId \in ZoneCardIds, toBottom \in BOOLEAN :
       ResumeMoveCard(from, to, cardId, Undefined, Undefined, Undefined, toBottom)

Spec == Init /\ [][Next]_vars

(***************************************************************************)
(* The token specification: one player whose battlefield holds cards,      *)
(* tokens and flipped wrappers of them; moveCard between library,          *)
(* battlefield and graveyard, and to a name that is no zone.               *)
(***************************************************************************)
TokenDecks == { <<"A">> }

TokenCardIds == {"A"} \cup TokenIds

\* Destinations a moveCard payload may name: the zones, a property that is an
\* array but no zone, and a name that is no property.
Destinations == Zone \cup {"initialDeck", "nowhere"}

TokenSources == {"library", "battlefield", "graveyard"}

TokenDestinations == {"battlefield", "graveyard", "nowhere"}

NextToken ==
  \/ \E s \in ZoneSockets : Connect(s)
  \/ \E s \in ZoneSockets, code \in ZoneCodes, name \in ZoneNames, deck \in TokenDecks :
       JoinSession(s, code, name, deck, Some(<< >>), << >>)
  \/ \E s \in ZoneSockets, code \in ZoneCodes, playerId \in ZoneSockets :
       \/ CreateToken(s, code, playerId)
       \/ BeginMoveCard(s, code, playerId)
       \/ \E cardId \in TokenCardIds :
            MoveCardToBattlefieldFlipped(s, code, playerId, cardId, "battlefield")
  \/ \E from \in TokenSources, to \in TokenDestinations, cardId \in TokenCardIds :
       ResumeMoveCard(from, to, cardId, Undefined, Undefined, Undefined, FALSE)

SpecToken == Init /\ [][NextToken]_vars

(***************************************************************************)
(* The reset specification: a standard session whose player holds a deck   *)
(* smaller than an opening hand, or a commander session whose player holds *)
(* its commander and a deck larger than an opening hand; moves, draws and  *)
(* life changes between resets; moveCard may name initialDeck and          *)
(* commanders as its source.                                               *)
(***************************************************************************)
\* What a join of this specification sends: code, deck, sideboard, commanders.
ResetJoins ==
  { [code |-> "STND1", deck |-> <<"A", "B">>, side |-> <<"S">>, commanders |-> << >>],
    [code |-> "CMDR1", deck |-> <<"X", "A", "A", "A", "A", "A", "A", "A", "A">>,
     side |-> << >>, commanders |-> <<"X">>] }

\* The specification follows one player at a time.
NobodyPlays == \A c \in Codes : sessions[c].players = << >>

ResetSources ==
  {"hand", "library", "battlefield", "graveyard", "commanderZone", "initialDeck", "commanders"}

ResetDestinations == {"graveyard", "battlefield"}

ResetCardIds == {"B", "X"}

NextReset ==
  \/ \E s \in ZoneSockets : Connect(s)
  \/ \E s \in ZoneSockets, name \in ZoneNames, j \in ResetJoins :
       NobodyPlays /\ JoinSession(s, j.code, name, j.deck, Some(j.side), j.commanders)
  \/ \E s \in ZoneSockets, code \in Codes, playerId \in ZoneSockets :
       \/ BeginResetPlayer(s, code, playerId)
       \/ BeginMoveCard(s, code, playerId)
       \/ Draw(s, code, playerId, 1)
       \/ ChangeLife(s, code, playerId, 5)
       \/ DisconnectPlayer(s, code, playerId)
  \/ ResumeResetPlayer
  \/ \E from \in ResetSources, to \in ResetDestinations, cardId \in ResetCardIds :
       ResumeMoveCard(from, to, cardId, Undefined, Undefined, Undefined, FALSE)

SpecReset == Init /\ [][NextReset]_vars

(***************************************************************************)
(* The lifecycle specification: three connections and two names in one     *)
(* session; joins and reconnects, transport disconnects, removal timers,   *)
(* explicit leaves, forced resets and turns.                               *)
(***************************************************************************)
LifeNames == {"ann", "bob"}

LifeCodes == {"STND1"}

LifeDeck == <<"A">>

NextLife ==
  \/ \E s \in SocketIds : Connect(s)
  \/ \E s \in SocketIds, code \in LifeCodes, name \in LifeNames :
       JoinSession(s, code, name, LifeDeck, Some(<< >>), << >>)
  \/ \E s \in SocketIds : Disconnect(s)
  \/ \E t \in reconnectionTimers : TimerFire(t)
  \/ \E s \in SocketIds, code \in LifeCodes, playerId \in SocketIds :
       DisconnectPlayer(s, code, playerId)
  \/ \E s \in SocketIds, code \in LifeCodes :
       \/ ForceResetSession(s, code)
       \/ NextTurn(s, code, s)

SpecLife == Init /\ [][NextLife]_vars

(***************************************************************************)
(* The fair specification: two connections, one name, both sessions; every *)
(* removal timer that stays set fires (setTimeout runs its callback once   *)
(* the delay has passed unless clearTimeout cancelled it).                 *)
(***************************************************************************)
FairSockets == {"s1", "s2"}

FairNames == {"ann"}

\* Every timer a run of this specification can set.
FairTimers == [code : Codes, name : FairNames, mapped : BOOLEAN, stale : BOOLEAN]

NextFair ==
  \/ \E s \in FairSockets : Connect(s)
  \/ \E s \in FairSockets, code \in Codes, name \in FairNames :
       JoinSession(s, code, name, LifeDeck, Some(<< >>), LifeDeck)
  \/ \E s \in FairSockets : Disconnect(s)
  \/ \E t \in reconnectionTimers : TimerFire(t)
  \/ \E s \in FairSockets, code \in Codes : DisconnectPlayer(s, code, s)

SpecFair ==
  /\ Init
  /\ [][NextFair]_vars
  /\ \A t \in FairTimers : WF_vars(TimerFire(t))

(***************************************************************************)
(* The payload specification: one connection and one player; payloads may  *)
(* name, as a zone, a zone, a property that is no array, or nothing the    *)
(* player has; startGame may come before any join.                         *)
(***************************************************************************)
PayloadZones == {"library", "hand", "battlefield", "name", "nowhere"}

PayloadCardIds == {"A", "B"} \cup TokenIds

NextPayload ==
  \/ \E s \in ZoneSockets : Connect(s)
  \/ \E s \in ZoneSockets, code \in ZoneCodes, name \in ZoneNames, deck \in ZoneDecks :
       JoinSession(s, code, name, deck, Some(<< >>), << >>)
  \/ \E s \in ZoneSockets, code \in ZoneCodes : StartGame(s, code)
  \/ \E s \in ZoneSockets, code \in ZoneCodes, playerId \in ZoneSockets :
       \/ CreateToken(s, code, playerId)
       \/ BeginMoveCard(s, code, playerId)
       \/ \E from \in PayloadZones : MoveAllToBottom(s, code, playerId, from, "library")
       \/ \E from \in PayloadZones \ {"battlefield"}, cardId \in PayloadCardIds :
            MoveCardToBattlefieldFlipped(s, code, playerId, cardId, from)
  \/ \E from \in PayloadZones, to \in PayloadZones, cardId \in PayloadCardIds :
       ResumeMoveCard(from, to, cardId, Undefined, Undefined, Undefined, FALSE)

SpecPayload == Init /\ [][NextPayload]_vars

(***************************************************************************)
(* Card ids held by a player.                                              *)
(***************************************************************************)
Range(seq) == { seq[i] : i \in 1..Len(seq) }

\* The multiset of the elements of a sequence.
BagOfSeq(seq) == [x \in Range(seq) |-> Cardinality({ i \in 1..Len(seq) : seq[i] = x })]

Ids(zone) == [i \in 1..Len(zone) |-> zone[i].id]

\* The ids of the base cards of the battlefield elements that are not tokens.
BaseCardIds(battlefield) ==
  LET cards == SelectSeq(battlefield, LAMBDA c : ~IsToken(c))
  IN [i \in 1..Len(cards) |->
        IF isCardOnField(cards[i]) THEN cards[i].card.id ELSE cards[i].id]

\* The multiset of non-token card ids over the seven zones of a player.
HeldIds(player) ==
  BagOfSeq(Ids(player.library) \o Ids(player.hand) \o BaseCardIds(player.battlefield)
           \o Ids(player.graveyard) \o Ids(player.exile) \o Ids(player.commanderZone)
           \o Ids(player.sideboard))

\* Every player of every session, as <<code, index>>.
AllPlayers == { <<c, i>> \in Codes \X (1..4) : i <= Len(sessions[c].players) }

PlayerAt(ci) == sessions[ci[1]].players[ci[2]]

(***************************************************************************)
(* C1  Conservation: for every player, in every state reached after a join *)
(* by zone-transfer intents with any zones as from and to (from = to       *)
(* included), the multiset of non-token card ids over library, hand,       *)
(* battlefield base cards, graveyard, exile, commanderZone and sideboard   *)
(* is the multiset of initialDeck plus initialSideboard.                   *)
(***************************************************************************)
Conservation ==
  \A ci \in AllPlayers :
    HeldIds(PlayerAt(ci)) =
      BagOfSeq(Ids(PlayerAt(ci).initialDeck) \o Ids(PlayerAt(ci).initialSideboard))

(***************************************************************************)
(* C2  Stale-reference resilience: for every source zone (battlefield      *)
(* included) and every destination, a moveCard whose cardId is not in the  *)
(* source zone raises no exception, leaves the player unchanged and ends   *)
(* with an updateState broadcast.                                          *)
(***************************************************************************)
StaleMoveResynchronizes ==
  \A ci \in AllPlayers : \A from \in Zone, to \in Zone, cardId \in ZoneCardIds :
    FindIndexById(PlayerAt(ci)[from], cardId) = 0 =>
      LET r == MoveCardBody(PlayerAt(ci), from, to, cardId,
                            Undefined, Undefined, Undefined, FALSE)
      IN r.player = PlayerAt(ci) /\ r.bcast /\ r.res # "caught"

(***************************************************************************)
(* C3  Token non-persistence: a moveCard of a battlefield element flagged  *)
(* as a token to any destination other than the battlefield removes the    *)
(* element from the battlefield; afterwards the token's id is in no zone   *)
(* of the player and every other zone is unchanged.                        *)
(***************************************************************************)
TokensLeaveTheGame ==
  \A ci \in AllPlayers :
    LET player == PlayerAt(ci)
    IN \A k \in 1..Len(player.battlefield) :
         IsToken(player.battlefield[k]) =>
           \A to \in Destinations \ {"battlefield"}, toBottom \in BOOLEAN :
             LET tokenId == player.battlefield[k].id
                 r == MoveCardBody(player, "battlefield", to, tokenId,
                                   Undefined, Undefined, Undefined, toBottom)
             IN /\ r.player.battlefield =
                     RemoveAt(player.battlefield, FindIndexById(player.battlefield, tokenId))
                /\ \A z \in Zone : tokenId \notin Range(Ids(r.player[z]))
                /\ \A z \in OwnProps \ {"battlefield"} : r.player[z] = player[z]

\* A moveCard has just taken a token off a battlefield that still holds an
\* element that is no token.
TokenRemoved ==
  /\ last.op = "moveCard"
  /\ last.res = "token_removed"
  /\ \E ci \in AllPlayers : \E k \in 1..Len(PlayerAt(ci).battlefield) :
       ~IsToken(PlayerAt(ci).battlefield[k])

\* The multiset difference a (-) b of two sequences' elements, as Bags has it.
Minus(a, b) == BagOfSeq(a) (-) BagOfSeq(b)

Min(a, b) == IF a < b THEN a ELSE b

TurnPassesToTheNextPlayer ==
  (last.op = "nextTurn" /\ last.res = "ok") =>
    LET session == sessions[last.code]
        n == Len(session.players)
        i == FindIndexByName(session.players, last.name)
    IN session.activePlayer = session.players[(i % n) + 1].id

(***************************************************************************)
(* C6  Reconnect: a joinSession whose playerName is the name of a player   *)
(* of the session creates no player; the list keeps its length and order,  *)
(* every other player and everything of that player but id and isOnline is *)
(* unchanged; the id becomes the joining connection's id, isOnline becomes *)
(* true, no removal timer stays set for (session, name), and updateState   *)
(* is broadcast.                                                           *)
(***************************************************************************)
ReconnectRestoresThePlayer ==
  [][ (/\ last'.op = "joinSession"
       /\ last'.code \in Codes
       /\ FindIndexByName(sessions[last'.code].players, last'.name) > 0)
      =>
      LET old == sessions[last'.code]
          new == sessions'[last'.code]
          i == FindIndexByName(old.players, last'.name)
      IN /\ Len(new.players) = Len(old.players)
         /\ \A k \in 1..Len(old.players) :
              new.players[k] =
                IF k = i THEN [old.players[k] EXCEPT !.id = last'.by, !.isOnline = TRUE]
                ELSE old.players[k]
         /\ new.turn = old.turn /\ new.activePlayer = old.activePlayer
         /\ ~ \E t \in reconnectionTimers' : t.code = last'.code /\ t.name = last'.name
         /\ last'.bcast /\ ~last'.err
    ]_vars

\* A connection has just taken over a player after a connection had closed,
\* while another removal timer is still running.
Reconnected ==
  /\ last.op = "joinSession"
  /\ last.res = "reconnect"
  /\ \E s \in SocketIds : sockets[s] = "closed"
  /\ \E ci \in AllPlayers : /\ PlayerAt(ci).name = last.name
                            /\ PlayerAt(ci).id = last.by
                            /\ PlayerAt(ci).hand # << >>
  /\ reconnectionTimers # {}

(***************************************************************************)
(* C7  NameTaken: a joinSession whose playerName is the name of another    *)
(* player of the session (one held by a different, connected, connection)  *)
(* fails with an error to the requester and leaves that player (id and     *)
(* isOnline included) and the session unchanged.                           *)
(***************************************************************************)
TakenNameIsRefused ==
  [][ (/\ last'.op = "joinSession"
       /\ last'.code \in Codes
       /\ \E k \in 1..Len(sessions[last'.code].players) :
            /\ sessions[last'.code].players[k].name = last'.name
            /\ sessions[last'.code].players[k].isOnline
            /\ sessions[last'.code].players[k].id # last'.by)
      => (last'.err /\ sessions' = sessions)
    ]_vars

(***************************************************************************)
(* C8  Grace-timer safety: a removal timer removes a player only if that   *)
(* player is offline when the timer fires, and never when the timer was    *)
(* started before a reconnect of that player (same session, same name).    *)
(***************************************************************************)
TimerRemovesOnlyTheAbsent ==
  [][ (/\ last'.op = "timer"
       /\ sessions'[last'.code].players # sessions[last'.code].players)
      =>
      LET players == sessions[last'.code].players
          i == FindIndexByName(players, last'.name)
      IN /\ i > 0
         /\ ~players[i].isOnline
         /\ sessions'[last'.code].players = RemoveAt(players, i)
         /\ ~last'.stale
    ]_vars

\* A timer has just removed a player of a session in which another player, on
\* a connection opened after one had closed, is online.
TimerRemoved ==
  /\ last.op = "timer"
  /\ last.res = "removed"
  /\ \E ci \in AllPlayers : ci[1] = last.code /\ PlayerAt(ci).isOnline
  /\ Cardinality({ s \in SocketIds : sockets[s] = "closed" }) >= 2

(***************************************************************************)
(* C9  Eventual removal: when timers fire fairly, a player whose           *)
(* connection has closed is eventually no longer in the session's list     *)
(* under that connection's id, in every session where the connection had   *)
(* a player.                                                               *)
(***************************************************************************)
DisconnectedPlayersLeave ==
  \A s \in FairSockets, code \in Codes :
    (sockets[s] = "closed" /\ FindPlayer(code, s) > 0) ~> (FindPlayer(code, s) = 0)

(***************************************************************************)
(* C10  Pause when all offline: after a transport disconnect that leaves   *)
(* every player of the session offline, the session has activePlayer = ""  *)
(* and turn = 0, whoever held the active pointer.                          *)
(***************************************************************************)
AllOfflinePauses ==
  (/\ last.op = "disconnect"
   /\ last.res = "offline"
   /\ \A k \in 1..Len(sessions[last.code].players) :
        ~sessions[last.code].players[k].isOnline)
  => (sessions[last.code].activePlayer = "" /\ sessions[last.code].turn = 0)

(***************************************************************************)
(* C11  A transport disconnect does not remove the player: right after the *)
(* disconnect handler, every player whose id is the closed connection's is *)
(* still in its session's list at the same index, unchanged but for        *)
(* isOnline, which is false, and the timer the map holds for (session      *)
(* code, player name) is set.                                              *)
(***************************************************************************)
DisconnectKeepsThePlayer ==
  [][ \A s \in SocketIds :
        (sockets[s] = "open" /\ sockets'[s] = "closed") =>
          \A code \in Codes : \A i \in 1..Len(sessions[code].players) :
            sessions[code].players[i].id = s =>
              /\ i <= Len(sessions'[code].players)
              /\ sessions'[code].players[i] =
                   [sessions[code].players[i] EXCEPT !.isOnline = FALSE]
              /\ \E t \in reconnectionTimers' :
                   /\ t.mapped
                   /\ getTimerKey(t.code, t.name) =
                        getTimerKey(code, sessions[code].players[i].name)
    ]_vars

(***************************************************************************)
(* C12  Hard removal hand-off: when a removal timer or a disconnectPlayer  *)
(* removes a player whose id the active pointer holds, activePlayer        *)
(* becomes the id of the first remaining player, or "" with turn = 0 when  *)
(* none remains; when the pointer does not hold the removed player's id,   *)
(* activePlayer and turn are unchanged.                                    *)
(***************************************************************************)
RemovalHandsThePointerOn ==
  [][ (/\ last'.op \in {"timer", "disconnectPlayer"}
       /\ last'.res = "removed")
      =>
      LET old == sessions[last'.code]
          new == sessions'[last'.code]
          i == FindIndexByName(old.players, last'.name)
      IN /\ i > 0
         /\ new.players = RemoveAt(old.players, i)
         /\ IF old.activePlayer = old.players[i].id
            THEN IF Len(new.players) > 0
                 THEN new.activePlayer = new.players[1].id /\ new.turn = old.turn
                 ELSE new.activePlayer = "" /\ new.turn = 0
            ELSE new.activePlayer = old.activePlayer /\ new.turn = old.turn
    ]_vars

\* A player has just been removed from a session that keeps a player, and the
\* pointer is on the first remaining player, whose connection is open.
PointerHandedOn ==
  /\ last.op \in {"timer", "disconnectPlayer"}
  /\ last.res = "removed"
  /\ sessions[last.code].players # << >>
  /\ sessions[last.code].activePlayer = sessions[last.code].players[1].id
  /\ sockets[sessions[last.code].activePlayer] = "open"

(***************************************************************************)
(* C13  Explicit-leave identity check: a disconnectPlayer whose playerId   *)
(* is not the requesting connection's id removes no player and changes no  *)
(* session state, and sends an error to the requester; a disconnectPlayer  *)
(* that removes a player removes one whose id is the requesting            *)
(* connection's.                                                           *)
(***************************************************************************)
OnlyTheOwnerLeaves ==
  [][ last'.op = "disconnectPlayer" =>
        /\ last'.res = "not_yours" => (sessions' = sessions /\ last'.err /\ ~last'.bcast)
        /\ sessions' # sessions =>
             \E i \in 1..Len(sessions[last'.code].players) :
               /\ sessions[last'.code].players[i].id = last'.by
               /\ sessions'[last'.code].players = RemoveAt(sessions[last'.code].players, i)
               /\ \A code \in Codes \ {last'.code} : sessions'[code] = sessions[code]
    ]_vars

\* A connection has just asked for the removal of a player that another
\* connection holds, and that player is still in the session.
LeaveRefused ==
  /\ last.op = "disconnectPlayer"
  /\ last.res = "not_yours"
  /\ last.code \in Codes
  /\ \E ci \in AllPlayers : /\ ci[1] = last.code
                            /\ PlayerAt(ci).id # last.by
                            /\ PlayerAt(ci).isOnline

(***************************************************************************)
(* C14  No handler throws: for every intent and payload, in every          *)
(* reachable state, sessions without players included, the handler runs to *)
(* completion without an uncaught exception.                               *)
(***************************************************************************)
NoHandlerThrows == ~last.threw

(***************************************************************************)
(* C15  InvalidZone: a moveCard whose from or to names no zone of the      *)
(* player (an unknown name, or a property that is no list) sends an error  *)
(* to the requester and leaves the player unchanged: no card changes zone, *)
(* no token is deleted, every zone keeps its order.                        *)
(***************************************************************************)
InvalidZoneIsRefused ==
  \A ci \in AllPlayers :
    \A from \in PayloadZones, to \in PayloadZones, cardId \in PayloadCardIds :
      (from \notin Zone \/ to \notin Zone) =>
        LET r == MoveCardBody(PlayerAt(ci), from, to, cardId,
                              Undefined, Undefined, Undefined, FALSE)
        IN r.err /\ r.player = PlayerAt(ci)

(***************************************************************************)
(* C16  Broadcast after mutation: whenever a handler or a timer callback   *)
(* has changed a session and finished, it has emitted updateState with     *)
(* that session to the session's room after its last change.               *)
(***************************************************************************)
MutationIsBroadcast ==
  [][\A code \in Codes :
       sessions'[code] # sessions[code] => last'.bcast /\ last'.code = code]_vars

(***************************************************************************)
(* The opening specification: two connections and two names in a standard  *)
(* session, one of each in a commander session; joins, game starts, and    *)
(* card moves out of the lists a player object holds.                      *)
(***************************************************************************)
StartSockets == {"s1", "s2"}

StartNames == {"ann", "bob"}

StartJoins ==
  { [code |-> "STND1", names |-> StartNames, deck |-> <<"A">>, commanders |-> << >>],
    [code |-> "CMDR1", names |-> {"ann"},
     deck |-> <<"X", "C", "C", "C", "C", "C", "C", "C", "C">>, commanders |-> <<"X">>] }

StartSources == {"initialDeck", "commanders"}

StartCardIds == {"A", "X"}

\* The specification follows one session at a time.
OtherSessionsEmpty(code) == \A c \in Codes \ {code} : sessions[c].players = << >>

NextStart ==
  \/ \E s \in StartSockets : Connect(s)
  \/ \E s \in StartSockets, j \in StartJoins : \E name \in j.names :
       OtherSessionsEmpty(j.code)
         /\ JoinSession(s, j.code, name, j.deck, Some(<< >>), j.commanders)
  \/ \E s \in StartSockets, code \in Codes : StartGame(s, code)
  \/ \E s \in StartSockets, code \in Codes, playerId \in StartSockets :
       BeginMoveCard(s, code, playerId)
  \/ \E from \in StartSources, cardId \in StartCardIds :
       ResumeMoveCard(from, "graveyard", cardId, Undefined, Undefined, Undefined, FALSE)

SpecStart == Init /\ [][NextStart]_vars

(***************************************************************************)
(* C17  Start game: after startGame on a session with at least one player, *)
(* every player has a hand of min(7, pool) cards and a library of the rest *)
(* of the pool, library plus hand being a permutation of initialDeck minus *)
(* the designated commanders; life is 20 (standard) or 40 (commander);     *)
(* battlefield, graveyard and exile are empty; the mana pool and the named *)
(* counters are zero; turn = 1 and activePlayer is the id of one of the    *)
(* session's players.                                                      *)
(***************************************************************************)
StartGameDeals ==
  [][(last'.op = "startGame" /\ last'.code \in Codes /\ ~last'.threw) =>
       LET session == sessions'[last'.code]
       IN /\ session.turn = 1
          /\ \E i \in 1..Len(session.players) :
               session.activePlayer = session.players[i].id
          /\ \A i \in 1..Len(session.players) :
               LET player == session.players[i]
                   pool == RemoveCommanders(player.initialDeck, player.commanders)
               IN /\ Len(player.hand) = Min(OpeningHand, Len(pool))
                  /\ Len(player.library) = Len(pool) - Len(player.hand)
                  /\ BagOfSeq(player.library \o player.hand) = BagOfSeq(pool)
                  /\ player.life = IF session.sessionType = "commander"
                                   THEN CommanderLife ELSE StandardLife
                  /\ player.battlefield = << >>
                  /\ player.graveyard = << >>
                  /\ player.exile = << >>
                  /\ player.manaPool = ZeroMana
                  /\ player.counters = ZeroCounters]_vars

(***************************************************************************)
(* The join specification: two connections and two names, every session    *)
(* code and one that is not registered; joins with empty and non-empty      *)
(* decks, with and without designated commanders, explicit leaves and       *)
(* turns.                                                                   *)
(***************************************************************************)
JoinSockets == {"s1", "s2"}

JoinNames == {"ann", "bob"}

JoinCodes == Codes \cup {"NOPE"}

JoinDecks == { << >>, <<"X", "A">> }

\* commanderCard of the payload: none, one the deck holds, one it does not.
JoinCommanders == { << >>, <<"X">>, <<"Y">> }

NextJoin ==
  \/ \E s \in JoinSockets : Connect(s)
  \/ \E s \in JoinSockets, code \in JoinCodes, name \in JoinNames,
        deckIds \in JoinDecks, commanderIds \in JoinCommanders :
       (code \in Codes => OtherSessionsEmpty(code))
         /\ JoinSession(s, code, name, deckIds, Some(<< >>), commanderIds)
  \/ \E s \in JoinSockets, code \in Codes :
       \/ DisconnectPlayer(s, code, s)
       \/ NextTurn(s, code, s)

SpecJoin == Init /\ [][NextJoin]_vars

\* This step is a joinSession with this deck and these commanders; last' holds
\* the connection that sent it, the session code and the name.
IsJoin(deckIds, commanderIds) ==
  /\ last'.op = "joinSession"
  /\ JoinSession(last'.by, last'.code, last'.name, deckIds, Some(<< >>), commanderIds)

\* The player a successful new join has just appended to the session.
Joined(code) == sessions'[code].players[Len(sessions'[code].players)]

ContainsAll(deckIds, commanderIds) ==
  \A i \in 1..Len(commanderIds) : \E k \in 1..Len(deckIds) : deckIds[k] = commanderIds[i]

\* Life and zones of the player after a join, the library apart.
JoinedFresh(code, commanderIds) ==
  LET player == Joined(code)
      isCommander == sessions[code].sessionType = "commander"
  IN /\ player.life = IF isCommander THEN CommanderLife ELSE StandardLife
     /\ player.hand = << >>
     /\ player.battlefield = << >>
     /\ player.graveyard = << >>
     /\ player.exile = << >>
     /\ Ids(player.commanderZone) = IF isCommander THEN commanderIds ELSE << >>

(***************************************************************************)
(* C18  Join post-state, as stated: after a successful new join with a     *)
(* deck that contains every designated commander, the player has life 20   *)
(* (standard) or 40 (commander), an empty hand, battlefield, graveyard and *)
(* exile, a commanderZone equal to the designated commanders in a          *)
(* commander session and empty in a standard one, and a library that is a  *)
(* permutation of the deck minus the designated commanders.                *)
(***************************************************************************)
JoinShufflesDeckMinusCommanders ==
  [][\A deckIds \in JoinDecks, commanderIds \in JoinCommanders :
       (/\ last'.res = "joined"
        /\ IsJoin(deckIds, commanderIds)
        /\ ContainsAll(deckIds, commanderIds)) =>
         /\ JoinedFresh(last'.code, commanderIds)
         /\ BagOfSeq(Ids(Joined(last'.code).library)) =
              BagOfSeq(deckIds) (-) BagOfSeq(commanderIds)]_vars

(***************************************************************************)
(* C18  Join post-state, amended: as above, but the library is a           *)
(* permutation of the deck minus the designated commanders in a commander  *)
(* session, and of the whole deck, designated commanders included, in a    *)
(* standard session.                                                       *)
(***************************************************************************)
JoinPreparesZones ==
  [][\A deckIds \in JoinDecks, commanderIds \in JoinCommanders :
       (/\ last'.res = "joined"
        /\ IsJoin(deckIds, commanderIds)
        /\ ContainsAll(deckIds, commanderIds)) =>
         /\ JoinedFresh(last'.code, commanderIds)
         /\ BagOfSeq(Ids(Joined(last'.code).library)) =
              IF sessions[last'.code].sessionType = "commander"
              THEN BagOfSeq(deckIds) (-) BagOfSeq(commanderIds)
              ELSE BagOfSeq(deckIds)]_vars

\* A commander-session join whose commander the deck holds has completed.
CommanderSeated ==
  /\ last.op = "joinSession" /\ last.res = "joined"
  /\ last.code \in Codes
  /\ sessions[last.code].sessionType = "commander"
  /\ \E i \in 1..Len(sessions[last.code].players) :
       LET player == sessions[last.code].players[i]
       IN /\ player.name = last.name
          /\ Ids(player.commanderZone) = <<"X">>
          /\ Ids(player.library) = <<"A">>

\* The payload is one the validation of joinSession refuses.
Refusable(code, deckIds, commanderIds) ==
  \/ code \notin Codes
  \/ deckIds = << >>
  \/ code \in Codes /\ sessions[code].sessionType = "commander" /\ commanderIds = << >>

\* The join changed no session and sent an error to the requester alone.
Refused ==
  /\ sessions' = sessions
  /\ last'.err /\ ~last'.bcast /\ ~last'.stats

(***************************************************************************)
(* C19  Rejected joins change nothing, as stated: a joinSession with an    *)
(* unknown session code, with an empty deck, or (in a commander session)   *)
(* with no designated commander adds no player, changes no session's       *)
(* player list, turn or activePlayer, and sends an error only to the       *)
(* requester.                                                              *)
(***************************************************************************)
BadJoinChangesNothing ==
  [][\A deckIds \in JoinDecks, commanderIds \in JoinCommanders :
       (Refusable(last'.code, deckIds, commanderIds)
          /\ IsJoin(deckIds, commanderIds)) => Refused]_vars

(***************************************************************************)
(* C19  Rejected joins change nothing, amended: the same, for a join whose *)
(* name no player of the session holds.  Under a name the session already  *)
(* holds the join is a reconnection, whatever its deck and commanders.     *)
(***************************************************************************)
RejectedJoinChangesNothing ==
  [][\A deckIds \in JoinDecks, commanderIds \in JoinCommanders :
       (/\ Refusable(last'.code, deckIds, commanderIds)
        /\ last'.code \in Codes =>
             FindIndexByName(sessions[last'.code].players, last'.name) = 0
        /\ IsJoin(deckIds, commanderIds)) =>
         Refused]_vars

\* A join without a commander has been refused by a commander session that
\* has a player, in the middle of a game.
JoinRefused ==
  /\ last.op = "joinSession" /\ last.res = "no_commander"
  /\ sessions[last.code].players # << >>
  /\ sessions[last.code].turn > 1

(***************************************************************************)
(* C20  First joiner becomes active: a successful new join appends the     *)
(* player at the end of the session's player list; if the list was empty   *)
(* before, activePlayer becomes the new player's id and turn becomes 1;    *)
(* otherwise activePlayer and turn are unchanged.                          *)
(***************************************************************************)
FirstJoinerBecomesActive ==
  [][(last'.op = "joinSession" /\ last'.res = "joined") =>
       LET before == sessions[last'.code]
           after == sessions'[last'.code]
           n == Len(before.players)
       IN /\ Len(after.players) = n + 1
          /\ \A i \in 1..n : after.players[i] = before.players[i]
          /\ after.players[n + 1].id = last'.by
          /\ after.players[n + 1].name = last'.name
          /\ IF n = 0
             THEN after.activePlayer = last'.by /\ after.turn = 1
             ELSE after.activePlayer = before.activePlayer /\ after.turn = before.turn]_vars

\* A second player has joined a session whose game is past its first turn.
SecondJoined ==
  /\ last.op = "joinSession" /\ last.res = "joined"
  /\ Len(sessions[last.code].players) = 2
  /\ sessions[last.code].turn > 1
  /\ sessions[last.code].activePlayer # last.by

\* Two moveCard handlers of the same player are suspended at their delay.
TwoSuspended ==
  /\ Len(pending) >= 2
  /\ pending[1].op = "moveCard" /\ pending[2].op = "moveCard"
  /\ pending[1].code = pending[2].code /\ pending[1].name = pending[2].name
  /\ ~pending[1].orphan /\ ~pending[2].orphan

\* The player the first suspended handler holds.
SuspendedPlayer ==
  LET h == pending[1]
  IN sessions[h.code].players[FindIndexByName(sessions[h.code].players, h.name)]

\* How many elements of the player's zones carry the id.
Occurrences(player, cardId) ==
  Cardinality({ zi \in Zone \X (1..4) :
                  zi[2] <= Len(player[zi[1]]) /\ player[zi[1]][zi[2]].id = cardId })

\* The two handlers resume one after the other on the card `cardId` of `from`:
\* one moves it, the other misses it and changes nothing, and the card ends
\* in exactly one zone, once, with no exception caught.
RaceResolves(player, from, to1, to2, cardId) ==
  LET r1 == MoveCardBody(player, from, to1, cardId, Undefined, Undefined, Undefined, FALSE)
      r2 == MoveCardBody(r1.player, from, to2, cardId, Undefined, Undefined, Undefined, FALSE)
  IN /\ r1.res = "moved"
     /\ r2.res \in {"not_found", "not_on_battlefield"}
     /\ r2.player = r1.player
     /\ Occurrences(r2.player, cardId) = 1

\* The card is in the zone `from`, and nowhere else.
HoldsOnce(player, from, cardId) ==
  FindIndexById(player[from], cardId) > 0 /\ Occurrences(player, cardId) = 1

FaceDeck == <<"D", "A">>

FaceZones == {"library", "hand", "battlefield"}

FaceCardIds == {"D", "A"} \cup TokenIds

NextFace ==
  \/ \E s \in ZoneSockets : Connect(s)
  \/ \E s \in ZoneSockets, code \in ZoneCodes, name \in ZoneNames :
       JoinSession(s, code, name, FaceDeck, Some(<< >>), << >>)
  \/ \E s \in ZoneSockets, code \in ZoneCodes, playerId \in ZoneSockets :
       \/ BeginMoveCard(s, code, playerId)
       \/ BeginResetPlayer(s, code, playerId)
       \/ \E cardId \in FaceCardIds :
            \/ FlipCard(s, code, playerId, cardId)
            \/ CloneCard(s, code, playerId, cardId)
            \/ MoveCardToBattlefieldFlipped(s, code, playerId, cardId, "library")
  \/ ResumeResetPlayer
  \/ \E from \in FaceZones, to \in FaceZones \ {"library"}, cardId \in FaceCardIds :
       ResumeMoveCard(from, to, cardId, Undefined, Undefined, Undefined, FALSE)

SpecFace == Init /\ [][NextFace]_vars

\* The slots of a card that flipCard exchanges, front and second face.
Faces(card) ==
  [f \in { p[1] : p \in FaceSlots } \cup { p[2] : p \in FaceSlots } |-> card[f]]

(***************************************************************************)
(* C22  Flip idempotence: for a double-faced card on the battlefield, two  *)
(* consecutive flipCard intents restore every front slot and second-face   *)
(* slot (name, image, mana cost, type line, power, toughness, loyalty) and *)
(* the isFlipped flag to their values before the first flip.               *)
(***************************************************************************)
FlipTwiceRestores ==
  \A ci \in AllPlayers : \A cardId \in FaceCardIds :
    LET player == PlayerAt(ci)
        i == FindIndexById(player.battlefield, cardId)
        once == FlipCardBody(player, cardId).player
        twice == FlipCardBody(once, cardId).player
    IN (i > 0 /\ HasSecondFace(player.battlefield[i].card)) =>
         /\ Faces(once.battlefield[i].card) # Faces(player.battlefield[i].card)
         /\ once.battlefield[i].isFlipped # player.battlefield[i].isFlipped
         /\ Faces(twice.battlefield[i].card) = Faces(player.battlefield[i].card)
         /\ twice.battlefield[i].isFlipped = player.battlefield[i].isFlipped

\* A flipCard has turned a double-faced card of the battlefield to its second
\* face.
FlippedToNight ==
  /\ last.op = "flipCard" /\ last.res = "flipped"
  /\ \E ci \in AllPlayers : \E i \in 1..Len(PlayerAt(ci).battlefield) :
       LET c == PlayerAt(ci).battlefield[i]
       IN HasSecondFace(c.card) /\ c.card.name = "Night" /\ c.isFlipped

(***************************************************************************)
(* C23  initialDeck is read-only: after the join that creates a player, no *)
(* intent (moveCard, moveAllCards, startGame, resetPlayer, draw, shuffle,  *)
(* flipCard, cloneCard, nextTurn, reconnect) changes the membership or the *)
(* order of that player's initialDeck.                                     *)
(***************************************************************************)
InitialDeckIsReadOnly ==
  [][\A code \in Codes :
       \A i \in 1..Len(sessions[code].players), k \in 1..Len(sessions'[code].players) :
         (/\ sessions[code].players[i].name = sessions'[code].players[k].name
          /\ ~(last'.op = "joinSession" /\ last'.res = "joined")) =>
           Ids(sessions'[code].players[k].initialDeck) =
             Ids(sessions[code].players[i].initialDeck)]_vars

(***************************************************************************)
(* gameLogic.ts: parseManaCost and sortPlayerHand                          *)
(***************************************************************************)
\* The printed cards a hand given to sortPlayerHand is made of.  A mana cost
\* is the sequence of its {...} symbols, braces removed; a card without a
\* mana cost has no mana_cost property.
PrintedCards ==
  { [id |-> "c1", name |-> "Sol Ring", mana_cost |-> <<"1">>],
    [id |-> "c2", name |-> "Counterspell", mana_cost |-> <<"U", "U">>],
    [id |-> "c3", name |-> "Wrath of God", mana_cost |-> <<"2", "W", "W">>],
    [id |-> "c4", name |-> "Llanowar Elves", mana_cost |-> <<"G">>],
    [id |-> "c5", name |-> "Thoughtseize", mana_cost |-> <<"B">>],
    [id |-> "c6", name |-> "Forest"],
    [id |-> "c7", name |-> "Gleemax", mana_cost |-> <<"1000000">>] }

\* The symbols parseInt(value, 10) reads a number from, with the number.
Numerals == ("1" :> 1) @@ ("2" :> 2) @@ ("1000000" :> 1000000)

\* !isNaN(parseInt(value, 10))
IsNumeric(value) == value \in DOMAIN Numerals

\* The position of a name in the order of String.prototype.localeCompare.
NameOrder ==
  ("Counterspell" :> 1) @@ ("Forest" :> 2) @@ ("Gleemax" :> 3)
    @@ ("Llanowar Elves" :> 4) @@ ("Sol Ring" :> 5) @@ ("Thoughtseize" :> 6)
    @@ ("Wrath of God" :> 7)

localeCompare(a, b) == NameOrder[a] - NameOrder[b]

\* The value parseManaCost returns for a card without a mana cost.
NoManaCost == 999

\* `for (const symbol of symbols) total += isNaN(n) ? 1 : n`
RECURSIVE SumSymbols(_)
SumSymbols(symbols) ==
  IF symbols = << >> THEN 0
  ELSE (IF IsNumeric(Head(symbols)) THEN Numerals[Head(symbols)] ELSE 1)
         + SumSymbols(Tail(symbols))

\* parseManaCost(card.mana_cost)
parseManaCost(card) ==
  IF "mana_cost" \notin DOMAIN card THEN NoManaCost ELSE SumSymbols(card.mana_cost)

\* The comparator sortPlayerHand gives to Array.prototype.sort.
compareHand(a, b, criteria) ==
  IF criteria = "mana_cost"
  THEN IF parseManaCost(a) # parseManaCost(b)
       THEN parseManaCost(a) - parseManaCost(b)
       ELSE localeCompare(a.name, b.name)
  ELSE IF criteria = "name"
  THEN localeCompare(a.name, b.name)
  ELSE IF criteria = "type_line"
  THEN \* no printed card of the model has a type line: '' against ''
       parseManaCost(a) - parseManaCost(b)
  ELSE 0

\* Insertion of a card behind every card that does not compare greater.
RECURSIVE InsertCompared(_, _, _)
InsertCompared(sorted, card, criteria) ==
  IF sorted = << >> THEN <<card>>
  ELSE IF compareHand(Head(sorted), card, criteria) <= 0
  THEN <<Head(sorted)>> \o InsertCompared(Tail(sorted), card, criteria)
  ELSE <<card>> \o sorted

\* player.hand.sort(compare): Array.prototype.sort is stable.
RECURSIVE sortPlayerHand(_, _)
sortPlayerHand(hand, criteria) ==
  IF hand = << >> THEN << >>
  ELSE InsertCompared(sortPlayerHand(SubSeq(hand, 1, Len(hand) - 1), criteria),
                      hand[Len(hand)], criteria)

(***************************************************************************)
(* The sorting specification: a player whose hand is any arrangement of up *)
(* to MaxHand different printed cards, sorted by each criterion.           *)
(***************************************************************************)
SortHands ==
  { h \in UNION { [1..n -> PrintedCards] : n \in 0..MaxHand } :
      \A i, j \in 1..Len(h) : i # j => h[i] # h[j] }

SortCriteria == {"mana_cost", "name", "type_line", "other"}

InitSort ==
  /\ \E hand \in SortHands :
       sessions = [code \in Codes |->
         [code |-> code,
          players |-> IF code = "STND1"
                      THEN << [NewPlayer("1", "Test Player", StandardLife, << >>, << >>,
                                         << >>, << >>, << >>) EXCEPT !.hand = hand] >>
                      ELSE << >>,
          turn |-> 0, activePlayer |-> "",
          sessionType |-> IF code = "STND1" THEN "standard" ELSE "commander"]]
  /\ sockets = [s \in SocketIds |-> "fresh"]
  /\ reconnectionTimers = {}
  /\ pending = << >>
  /\ last = Quiet("init", "", "")

SortPlayerHand(criteria) ==
  /\ sessions' = [sessions EXCEPT !["STND1"].players[1].hand = sortPlayerHand(@, criteria)]
  /\ last' = Quiet("sortPlayerHand", "STND1", criteria)
  /\ UNCHANGED <<sockets, reconnectionTimers, pending>>

NextSort == \E criteria \in SortCriteria : SortPlayerHand(criteria)

SpecSort == InitSort /\ [][NextSort]_vars

\* The mana value the claim computes for a card that has a mana cost: each
\* numeric symbol counts its number, every other symbol counts 1.
ManaValue(card) ==
  LET cost == card.mana_cost
      RECURSIVE Sum(_)
      Sum(k) == IF k = 0 THEN 0
                ELSE Sum(k - 1) + (IF cost[k] \in DOMAIN Numerals THEN Numerals[cost[k]] ELSE 1)
  IN Sum(Len(cost))

HasManaCost(card) == "mana_cost" \in DOMAIN card

(***************************************************************************)
(* C24  sortPlayerHand with criterion mana_cost orders the hand by         *)
(* ascending computed mana value (a numeric symbol {n} counts n, any other *)
(* symbol counts 1), cards without a mana cost sort last, cards of equal   *)
(* mana value are ordered by name, and the result is a permutation of the  *)
(* input hand.                                                             *)
(***************************************************************************)
SortsByManaValue ==
  [][(last'.op = "sortPlayerHand" /\ last'.res = "mana_cost") =>
       LET before == sessions["STND1"].players[1].hand
           after == sessions'["STND1"].players[1].hand
       IN /\ BagOfSeq(after) = BagOfSeq(before)
          /\ \A i, j \in 1..Len(after) :
               i < j =>
                 /\ HasManaCost(after[j]) => HasManaCost(after[i])
                 /\ (HasManaCost(after[i]) /\ HasManaCost(after[j])) =>
                      /\ ManaValue(after[i]) <= ManaValue(after[j])
                      /\ ManaValue(after[i]) = ManaValue(after[j]) =>
                           NameOrder[after[i].name] <= NameOrder[after[j].name]]_vars

\* Array.prototype.splice(k, 0, x) with a 0-based index k.
InsertAt(seq, k, x) == SubSeq(seq, 1, k) \o <<x>> \o SubSeq(seq, k + 1, Len(seq))

\* The position a moveCard to the hand may carry: none, or an index.
Positions == {Undefined} \cup { Some(k) : k \in 0..2 }

(***************************************************************************)
(* C25  moveCard to hand: without an explicit position the card is         *)
(* appended at the end of the hand; with an explicit index `position` the  *)
(* card is inserted at that index and the relative order of the other hand *)
(* cards is unchanged.                                                     *)
(***************************************************************************)
MoveToHandHonoursPosition ==
  \A ci \in AllPlayers :
    \A from \in Zone \ {"battlefield"}, cardId \in ZoneCardIds, position \in Positions :
      LET player == PlayerAt(ci)
          i == FindIndexById(player[from], cardId)
          others == IF from = "hand" THEN RemoveAt(player.hand, i) ELSE player.hand
          r == MoveCardBody(player, from, "hand", cardId,
                            Undefined, Undefined, position, FALSE)
      IN i > 0 =>
           /\ r.res = "moved"
           /\ IF position = Undefined
              THEN r.player.hand = Append(others, player[from][i])
              ELSE LET k == CHOOSE k \in position : TRUE
                   IN k <= Len(others) =>
                        r.player.hand = InsertAt(others, k, player[from][i])

\* The CardType a moveCard takes out of an element of a zone.
PureCard(element) == IF isCardOnField(element) THEN element.card ELSE element

(***************************************************************************)
(* C26  moveCard insertion position: a card moved to library becomes its   *)
(* first element by default and its last element when toBottom is set; a   *)
(* card moved to commanderZone becomes its first element; a card moved to  *)
(* graveyard, exile or sideboard becomes its last element; in each case    *)
(* the relative order of the cards already in the destination is           *)
(* unchanged.                                                              *)
(***************************************************************************)
MoveInsertsAtItsPlace ==
  \A ci \in AllPlayers :
    \A from \in Zone, cardId \in ZoneCardIds, toBottom \in BOOLEAN,
       to \in {"library", "commanderZone", "graveyard", "exile", "sideboard"} :
      LET player == PlayerAt(ci)
          i == FindIndexById(player[from], cardId)
          already == IF from = to THEN RemoveAt(player[to], i) ELSE player[to]
          r == MoveCardBody(player, from, to, cardId,
                            Undefined, Undefined, Undefined, toBottom)
      IN r.res = "moved" =>
           r.player[to] =
             IF to = "commanderZone" \/ (to = "library" /\ ~toBottom)
             THEN <<PureCard(player[from][i])>> \o already
             ELSE Append(already, PureCard(player[from][i]))

\* A moveCard has put a card on top of a library that held a card, which is
\* now second.
PutOnTop ==
  /\ last.op = "moveCard" /\ last.res = "moved"
  /\ \E ci \in AllPlayers :
       /\ Len(PlayerAt(ci).library) = 2
       /\ PlayerAt(ci).hand = << >> /\ PlayerAt(ci).graveyard = << >>
       /\ PlayerAt(ci).exile = << >> /\ PlayerAt(ci).battlefield = << >>

\* The coordinates a moveCard may carry: none, or a number.
Coordinates == {Undefined, Some(7)}

(***************************************************************************)
(* C27  Battlefield entry resets transient state: a card moved by moveCard *)
(* from any non-battlefield zone to the battlefield is appended as a       *)
(* battlefield element with rotation 0, isFlipped false, isToken false,    *)
(* stats power 0 and toughness 0, counters 0, and position (50,50) unless  *)
(* x and y are supplied, whatever state the card had on an earlier stay.   *)
(***************************************************************************)
EntryResetsTheCard ==
  \A ci \in AllPlayers :
    \A from \in Zone \ {"battlefield"}, cardId \in TokenCardIds,
       x \in Coordinates, y \in Coordinates :
      LET player == PlayerAt(ci)
          r == MoveCardBody(player, from, "battlefield", cardId,
                            x, y, Undefined, FALSE)
          entered == r.player.battlefield[Len(r.player.battlefield)]
      IN (FindIndexById(player[from], cardId) > 0) =>
           /\ r.res = "moved"
           /\ r.player.battlefield = Append(player.battlefield, entered)
           /\ entered.id = cardId
           /\ entered.rotation = 0
           /\ ~entered.isFlipped
           /\ ~entered.isToken
           /\ entered.stats = ZeroStats
           /\ entered.counters = 0
           /\ entered.x = OrElse(x, DefaultX)
           /\ entered.y = OrElse(y, DefaultY)

(***************************************************************************)
(* The battlefield specification: one player with one card and a token;    *)
(* entries, repositions with and without coordinates, rotations, stats and *)
(* counters.                                                               *)
(***************************************************************************)
NextField ==
  \/ \E s \in ZoneSockets : Connect(s)
  \/ \E s \in ZoneSockets, code \in ZoneCodes, name \in ZoneNames, deck \in TokenDecks :
       JoinSession(s, code, name, deck, Some(<< >>), << >>)
  \/ \E s \in ZoneSockets, code \in ZoneCodes, playerId \in ZoneSockets :
       \/ CreateToken(s, code, playerId)
       \/ BeginMoveCard(s, code, playerId)
       \/ \E cardId \in TokenCardIds :
            \/ RotateCard(s, code, playerId, cardId)
            \/ IncrementCardStats(s, code, playerId, cardId)
            \/ IncrementCardCounters(s, code, playerId, cardId)
  \/ \E from \in {"library", "battlefield"}, cardId \in TokenCardIds,
        x \in Coordinates, y \in Coordinates :
       ResumeMoveCard(from, "battlefield", cardId, x, y, Undefined, FALSE)

SpecField == Init /\ [][NextField]_vars

(***************************************************************************)
(* C28  Battlefield reposition: a moveCard with from = to = battlefield on *)
(* a present element moves it to the end of the battlefield list, sets x   *)
(* and y to the supplied values (keeping the old value of a coordinate     *)
(* that is not supplied), preserves its rotation, isFlipped, isToken,      *)
(* stats and counters, and leaves the number and relative order of the     *)
(* other battlefield elements and all other zones unchanged.               *)
(***************************************************************************)
RepositionKeepsTheElement ==
  \A ci \in AllPlayers :
    \A cardId \in TokenCardIds, x \in Coordinates, y \in Coordinates :
      LET player == PlayerAt(ci)
          i == FindIndexById(player.battlefield, cardId)
          old == player.battlefield[i]
          r == MoveCardBody(player, "battlefield", "battlefield", cardId,
                            x, y, Undefined, FALSE)
          new == r.player.battlefield[Len(r.player.battlefield)]
      IN i > 0 =>
           /\ r.res = "moved"
           /\ r.player.battlefield = Append(RemoveAt(player.battlefield, i), new)
           /\ new.id = cardId /\ new.card = old.card
           /\ new.x = OrElse(x, old.x) /\ new.y = OrElse(y, old.y)
           /\ new.rotation = old.rotation
           /\ new.isFlipped = old.isFlipped /\ new.isToken = old.isToken
           /\ new.stats = old.stats /\ new.counters = old.counters
           /\ \A z \in ArrayProps \ {"battlefield"} : r.player[z] = player[z]

\* A moveCard has repositioned an element that is rotated and carries stats
\* and counters, leaving it behind another element.
Repositioned ==
  /\ last.op = "moveCard" /\ last.res = "moved"
  /\ \E ci \in AllPlayers :
       LET battlefield == PlayerAt(ci).battlefield
       IN /\ Len(battlefield) = 2
          /\ battlefield[1].isToken
          /\ battlefield[2].rotation = 90
          /\ battlefield[2].stats.power = 1
          /\ battlefield[2].counters = 1
          /\ battlefield[2].x = 7

(***************************************************************************)
(* The turn specification: two players of one session draw, put a card     *)
(* onto the battlefield, rotate it and end turns.                          *)
(***************************************************************************)
TurnSockets == {"s1", "s2"}

TurnNames == {"ann", "bob"}

\* ann brings three cards and bob one; the intents name the card both hold.
TurnJoins ==
  { [name |-> "ann", deck |-> <<"A", "B", "C">>],
    [name |-> "bob", deck |-> <<"A">>] }

TurnCardIds == {"A"}

NextTurns ==
  \/ \E s \in TurnSockets : Connect(s)
  \/ \E s \in TurnSockets, code \in ZoneCodes, j \in TurnJoins :
       JoinSession(s, code, j.name, j.deck, Some(<< >>), << >>)
  \/ \E s \in TurnSockets, code \in ZoneCodes :
       \/ Draw(s, code, s, 1)
       \/ \E cardId \in TurnCardIds, from \in {"library", "hand"} :
            MoveCardToBattlefieldFlipped(s, code, s, cardId, from)
       \/ \E cardId \in TurnCardIds :
            \/ RotateCard(s, code, s, cardId)
            \/ RotateCard180(s, code, s, cardId)
       \/ \E playerId \in TurnSockets : NextTurn(s, code, playerId)

SpecTurns == Init /\ [][NextTurns]_vars

(***************************************************************************)
(* C29  nextTurn effects: one nextTurn for a player sets the rotation of   *)
(* every element of that player's battlefield to 0, moves the top card of  *)
(* that player's library (if any) to the end of the hand, and increases    *)
(* the session's turn counter by exactly 1, all within the same step; no   *)
(* other player's zones change.                                            *)
(***************************************************************************)
TurnEnds(code, playerId) ==
  LET session == sessions[code]
      i == FindPlayer(code, playerId)
      player == session.players[i]
      after == sessions'[code].players[i]
  IN /\ Len(sessions'[code].players) = Len(session.players)
     /\ Len(after.battlefield) = Len(player.battlefield)
     /\ \A k \in 1..Len(player.battlefield) :
          after.battlefield[k] = [player.battlefield[k] EXCEPT !.rotation = 0]
     /\ IF player.library = << >>
        THEN after.library = << >> /\ after.hand = player.hand
        ELSE /\ after.library = Tail(player.library)
             /\ after.hand = Append(player.hand, Head(player.library))
     /\ \A z \in ArrayProps \ {"battlefield", "library", "hand"} : after[z] = player[z]
     /\ sessions'[code].turn = session.turn + 1
     /\ \A j \in 1..Len(session.players) :
          j # i => sessions'[code].players[j] = session.players[j]
     /\ \A c \in Codes \ {code} : sessions'[c] = sessions[c]

NextTurnEffects ==
  [][ \A s \in TurnSockets, code \in ZoneCodes, playerId \in TurnSockets :
        (/\ last'.op = "nextTurn" /\ last'.res = "ok"
         /\ FindPlayer(code, playerId) # 0
         /\ NextTurn(s, code, playerId))
        => TurnEnds(code, playerId) ]_vars

\* A nextTurn has untapped a battlefield and drawn a card while the other
\* player's rotated element stayed as it was.
TurnEnded ==
  /\ last.op = "nextTurn" /\ last.res = "ok"
  /\ \E code \in Codes :
       /\ Len(sessions[code].players) = 2
       /\ sessions[code].turn = 2
       /\ \E i, j \in 1..2 :
            LET player == sessions[code].players[i]
                other == sessions[code].players[j]
            IN /\ i # j /\ player.name = last.name
               /\ Len(player.battlefield) = 1 /\ player.battlefield[1].rotation = 0
               /\ Len(player.hand) = 2 /\ player.library = << >>
               /\ Len(other.battlefield) = 1 /\ other.battlefield[1].rotation = 180

(***************************************************************************)
(* C30  moveAllCards between two non-battlefield zones moves every card:   *)
(* afterwards the destination holds its previous cards followed by the     *)
(* source's previous cards in the same order and the source is empty; when *)
(* from and to name the same zone the zone's content is unchanged;         *)
(* sideboard is accepted as a non-battlefield zone.                        *)
(***************************************************************************)
MoveAllMovesEveryCard ==
  \A ci \in AllPlayers :
    \A from \in Zone \ {"battlefield"}, to \in Zone \ {"battlefield"} :
      LET player == PlayerAt(ci)
          r == MoveAllCardsBody(player, from, to)
      IN /\ r.res = "moved"
         /\ IF from = to THEN r.player = player
            ELSE /\ r.player[to] = player[to] \o player[from]
                 /\ r.player[from] = << >>
                 /\ \A z \in ArrayProps \ {from, to} : r.player[z] = player[z]

(***************************************************************************)
(* C31  Flip flag matches the shown face: for every double-faced card on a *)
(* battlefield, in every reachable state (including after the card left    *)
(* the battlefield and re-entered, after resetPlayer or startGame, and     *)
(* after moveCardToBattlefieldFlipped), isFlipped is true exactly when the *)
(* card's front-slot fields hold the face that was its second face at join.*)
(***************************************************************************)
FlipFlagMatchesFace ==
  \A ci \in AllPlayers : \A i \in 1..Len(PlayerAt(ci).battlefield) :
    LET c == PlayerAt(ci).battlefield[i]
    IN (isCardOnField(c) /\ HasSecondFace(c.card)) =>
         (c.isFlipped <=> c.card.name = "Night")

TokensOf(battlefield, baseCardLibraryId) ==
  { k \in 1..Len(battlefield) :
      /\ isCardOnField(battlefield[k])
      /\ IsToken(battlefield[k])
      /\ battlefield[k].card.id = baseCardLibraryId }

(***************************************************************************)
(* C33  cloneCard offset: the clone produced by cloneCard is placed at the *)
(* original's x and y each increased by 20 multiplied by the number of     *)
(* token elements with the same base card id that were on the battlefield *)
(* before the clone was added (so the first clone of a non-token card has  *)
(* offset 0 tokens x 20).                                                  *)
(***************************************************************************)
CloneOffsetCountsTokens ==
  \A ci \in AllPlayers : \A cardId \in FaceCardIds, newCardId \in TokenIds :
    LET player == PlayerAt(ci)
        i == FindIndexById(player.battlefield, cardId)
        original == player.battlefield[i]
        r == CloneCardBody(player, cardId, newCardId)
        clone == r.player.battlefield[Len(r.player.battlefield)]
        offset == 20 * Cardinality(TokensOf(player.battlefield, original.card.id))
    IN (i > 0 /\ isCardOnField(original)) =>
         /\ r.res = "cloned"
         /\ clone.x = original.x + offset
         /\ clone.y = original.y + offset

\* The ids of the players of a session.
PlayerIds(code) == { sessions[code].players[i].id : i \in 1..Len(sessions[code].players) }

(***************************************************************************)
(* C34  Active pointer validity: in every reachable state of every         *)
(* session, activePlayer is either "" or the current id of a player in     *)
(* that session's player list, including after a reconnect that changes    *)
(* the id of the player who held the pointer.                              *)
(***************************************************************************)
ActivePointerIsValid ==
  \A code \in Codes :
    sessions[code].activePlayer = "" \/ sessions[code].activePlayer \in PlayerIds(code)

(***************************************************************************)
(* C35  Player ids are unique within a session: in every reachable state   *)
(* no two players of the same session have the same id, including when one *)
(* connection sends joinSession to the same session more than once with    *)
(* different names.                                                        *)
(***************************************************************************)
PlayerIdsAreUnique ==
  \A code \in Codes : \A i, k \in 1..Len(sessions[code].players) :
    sessions[code].players[i].id = sessions[code].players[k].id => i = k

(***************************************************************************)
(* C36  Online flag tracks the connection: in every reachable state, no    *)
(* player in any session is marked isOnline = true while the connection    *)
(* whose id equals the player's id has already disconnected, including     *)
(* when one connection had joined more than one session or joined one      *)
(* session under several names.                                            *)
(***************************************************************************)
OnlineTracksConnection ==
  \A ci \in AllPlayers :
    PlayerAt(ci).isOnline => sockets[PlayerAt(ci).id] # "closed"

\* A zone element that holds no `card`.
IsPlainCard(c) == ~isCardOnField(c)

(***************************************************************************)
(* C37  Zone representation invariant: in every reachable state every      *)
(* element of a battlefield is a CardOnField whose `card` is a plain Card, *)
(* and every element of library, hand, graveyard, exile, commanderZone and *)
(* sideboard is a plain Card (never a CardOnField and never a former       *)
(* token), for any sequence of moveCard and moveCardToBattlefieldFlipped   *)
(* intents with any `from` and `to` values.                                *)
(***************************************************************************)
ZonesHoldTheirKind ==
  \A ci \in AllPlayers :
    LET player == PlayerAt(ci)
    IN /\ \A i \in 1..Len(player.battlefield) :
            /\ isCardOnField(player.battlefield[i])
            /\ IsPlainCard(player.battlefield[i].card)
       /\ \A z \in Zone \ {"battlefield"} : \A i \in 1..Len(player[z]) :
            /\ IsPlainCard(player[z][i])
            /\ player[z][i].id \notin TokenIds

(***************************************************************************)
(* C38  Player names are unique within a session: in every reachable state *)
(* no two players of the same session have the same name, so a removal     *)
(* timer keyed by (session code, player name) designates at most one       *)
(* player.                                                                 *)
(***************************************************************************)
PlayerNamesAreUnique ==
  /\ \A code \in Codes : \A i, k \in 1..Len(sessions[code].players) :
       sessions[code].players[i].name = sessions[code].players[k].name => i = k
  /\ \A t \in reconnectionTimers :
       Cardinality({ i \in 1..Len(sessions[t.code].players) :
                       getTimerKey(t.code, sessions[t.code].players[i].name)
                         = getTimerKey(t.code, t.name) }) <= 1

\* A join under a name the session already holds has been taken as a
\* reconnection while another player's removal timer is set.
NameTakenAgain ==
  /\ last.op = "joinSession" /\ last.res = "reconnect"
  /\ Len(sessions[last.code].players) = 2
  /\ \E t \in reconnectionTimers : t.code = last.code /\ t.name # last.name

(***************************************************************************)
(* C39  Empty session is idle: in every reachable state, a session whose   *)
(* player list is empty has turn = 0 and activePlayer = "", whatever       *)
(* sequence of joins, reconnects, explicit leaves, timer removals and      *)
(* forceResetSession emptied it.                                           *)
(***************************************************************************)
EmptySessionIsIdle ==
  \A code \in Codes :
    sessions[code].players = << >> =>
      sessions[code].turn = 0 /\ sessions[code].activePlayer = ""

\* This step is the part after the await of the handler at the head of the
\* queue.
Resumes == pending # << >> /\ pending' = Tail(pending)

\* The names and ids of a session's players, in the order of the list.
PlayerList(players) == [k \in 1..Len(players) |-> <<players[k].name, players[k].id>>]

(***************************************************************************)
(* C40  Suspended handlers and removal: when a moveCard or resetPlayer     *)
(* that is suspended at its awaited delay resumes after its player was     *)
(* removed from the session (explicit leave, timer expiry or               *)
(* forceResetSession) or after another resetPlayer or moveCard on the same *)
(* player completed, it does not re-insert the player into the session,    *)
(* does not change any other player, and the session's player list is the  *)
(* same as before it resumed; for a player still in the session the        *)
(* conservation of its card multiset holds once all suspended handlers     *)
(* have completed.                                                         *)
(***************************************************************************)
ResumeKeepsThePlayers ==
  \A code \in Codes :
    /\ PlayerList(sessions'[code].players) = PlayerList(sessions[code].players)
    /\ Head(pending).orphan => sessions'[code] = sessions[code]
    /\ \A k \in 1..Len(sessions[code].players) :
         sessions'[code].players[k] # sessions[code].players[k] =>
           /\ code = Head(pending).code
           /\ sessions[code].players[k].name = Head(pending).name

SuspendedHandlersAndRemoval ==
  [][Resumes => /\ ResumeKeepsThePlayers
                /\ pending' = << >> => Conservation']_vars

====
